---------------------------- MODULE Spec2Model ----------------------------
(***************************************************************************)
(* Model of the admission-control and retry utilities of                   *)
(* website-to-markdown-mcp:                                                *)
(*   - ConcurrencyLimiter (src/src/utils/rate-limiter.ts, lines 52-101)    *)
(*   - RateLimiter        (src/src/utils/rate-limiter.ts, lines 2-46)      *)
(*   - retry/retryOnError (src/unnamed/part_000)                           *)
(* JavaScript runs handlers to completion: every action below is one       *)
(* synchronous run of code between two suspension points (await).          *)
(***************************************************************************)
EXTENDS Integers, Sequences, FiniteSets, TLC

\* ------------------------------------------------------------------------
\* Bounds of the model
\* ------------------------------------------------------------------------
\* number of tasks submitted to ConcurrencyLimiter.run()
NumTasks == 5
\* largest maxConcurrency a limiter is constructed with
MaxConcurrencyBound == 2
\* consumers sharing one RateLimiter, and consume() calls they issue in all
NumConsumers == 2
MaxCalls == 3
\* largest request size n of consume(n), and largest maxTokens, of the shared bucket
MaxRequest == 2
MaxTokensBound == 2
\* largest maxTokens of the bucket of the back-to-back scenario
BurstTokensBound == 5
\* the clock: Date.now() runs up to MaxNow (milliseconds since the limiter was
\* constructed)
MaxNow == 3000
\* largest `retries` option of retry() / retryOnError()
MaxRetries == 2

VARIABLES
  \* ---- ConcurrencyLimiter ----
  maxConcurrency,  \* constructor argument (rate-limiter.ts:56)
  activeCount,     \* private activeCount (rate-limiter.ts:53)
  pendingQueue,    \* private pendingQueue (rate-limiter.ts:54): task ids, oldest first
  taskState,       \* per submitted task: where its execute() closure stands
  submitted,       \* number of run() calls so far; task ids are 1..submitted
  started,         \* history: task ids in the order their execute() began
  waiters,         \* history: tasks that run() had to push on pendingQueue
  dropped,         \* history: tasks removed from pendingQueue by clearQueue()
  \* ---- RateLimiter ----
  now,             \* Date.now(), in ms since the limiter was constructed
  rlMaxTokens,     \* private readonly maxTokens (rate-limiter.ts:5)
  refillRate,      \* private readonly refillRate (rate-limiter.ts:6), in
                   \* 1/RateDenominator tokens per second
  tokens,          \* private tokens (rate-limiter.ts:3)
  lastRefill,      \* private lastRefill (rate-limiter.ts:4)
  consumers,       \* per caller: its consume() call, idle or suspended at line 38
  callCount,       \* history: consume() calls issued
  granted,         \* history: tokens taken by the consume() calls that returned
  openCalls,       \* history, back-to-back scenario: the suspended call of a caller
  callLog,         \* history, back-to-back scenario: the calls that returned, in order
  \* ---- retry / retryOnError ----
  rtOpts,          \* the options (and retryableErrors) the call was made with
  rtPc,            \* where the call stands: idle, awaitFn, sleeping, resolved, rejected
  attempt,         \* the loop variable `attempt` (part_000:30, :97)
  lastError,       \* the local `lastError` (part_000:28, :95)
  regexLastIndex,  \* lastIndex of each RegExp among retryableErrors
  rtResult,        \* what the promise retry() returned settled with
  fnCalls,         \* history: number of invocations of fn
  thrownLog,       \* history: the errors fn threw, in order, and whether line 104
                   \* found each retryable
  onRetryLog,      \* history: the onRetry(error, attempt) calls, in order
  delays,          \* history: the delays slept, in order
  fnValues,        \* history: the values fn resolved with, in order
  \* ---- fetchWithRetry / simpleRetry ----
  slKind,          \* which of the two loops the call runs
  slOpts,          \* its arguments: retries, delay, factor
  slPc,            \* where the call stands: idle, awaitFn, sleeping, resolved, rejected
  slAttempt,       \* the loop variable (enhanced-fetcher.ts:88, part_002:27)
  slLastError,     \* the local `lastError` (enhanced-fetcher.ts:86, part_002:25)
  slResult,        \* what the returned promise settled with
  slCalls,         \* history: number of invocations of the wrapped request
  slThrown,        \* history: the errors it threw, in order
  slValues,        \* history: the values it resolved with, in order
  slDelays,        \* history: the delays slept, in order
  \* ---- AdaptiveRateLimiter ----
  arCfg,           \* constructor arguments: baseRate, maxTokens, errorThreshold
  arNow,           \* ms passed since the limiter was constructed
  arErrTenths,     \* private errorCount (rate-limiter.ts:129), in tenths
  arSuccess,       \* private successCount (rate-limiter.ts:130)
  arLastErrorTime, \* private lastErrorTime (rate-limiter.ts:131), a Date.now() value
  arLimiters,      \* the RateLimiter objects alive, oldest first; the last one
                   \* is this.baseLimiter (rate-limiter.ts:128)
  arCallers,       \* per caller: its consume() call, idle or suspended inside
                   \* RateLimiter.consume of one of the limiters
  arIssued,        \* history: consume() calls issued
  arStretch,       \* history: since when errorCount has been at or above the
                   \* threshold, and the consume() calls that returned since
  \* ---- StealthBrowser ----
  sbOpts,          \* options.enableStealth, and whether blockedResourceTypes is non-empty
  sbPc,            \* where the session's caller stands, and the await a method is
                   \* suspended at
  sbRefs,          \* this.page, this.context, this.browser (part_002:73-75): set or null
  sbOpen,          \* the resources acquired whose close() has not resolved
  sbCloseCalls,    \* history: the resources close() was called on, in order
  sbCloseLog,      \* history: the resources whose close() resolved, in order
  sbEvents,        \* history: initFailed, navFailed, closeThrew
  \* ---- parseOpenAPISpec ----
  oaContent,       \* the argument `content`: what each parsing stage makes of it
  oaPc,            \* where the call stands: idle, validating, dereferencing, done
  oaSpec,          \* the local `spec` (index.js:136)
  oaIsValid,       \* the local `isValid` (index.js:137)
  oaErrors,        \* the local `errors` (index.js:138)
  oaResult,        \* the object the call returned
  oaStages,        \* history: the parsing stages that ran, in order
  oaChecks,        \* history: how validation and dereferencing ended, and the
                   \* document before dereferencing
  \* ---- searchRelevantWebsites ----
  swQuery,         \* the argument `query`
  swSites,         \* config.websites (index.js:492)
  swPc,            \* where the call stands: idle, fetching, returned
  swIndex,         \* the position of the loop of index.js:494 in config.websites
  swResults,       \* the local `results` (index.js:493)
  swReturned,      \* the array the call returned
  swFetchLog,      \* history: the sites fetched, in order, and how each fetch ended
  \* ---- ContentProcessor.processContent / EnhancedWebsiteFetcher.fetchAndProcess ----
  cpKind,          \* which of the two classes processes the page
  cpHtml,          \* the argument `html`: the elements of the page
  cpOptions,       \* the argument `options`
  cpConverted,     \* the Markdown that turndown() makes of the extracted content
  cpPc,            \* where the call stands: idle, returned, thrown
  cpResult,        \* the object the call returned, or the error it threw
  cpMeasured,      \* history: the text whose length part_003:394 tested
  \* ---- SimpleRateLimit / rateLimit ----
  srKind,          \* SimpleRateLimit.wait() or the function rateLimit()
  srInterval,      \* intervalMs
  srNow,           \* milliseconds since construction
  srLastCall,      \* this.lastCall / _lastCalls.get('global')
  srCallers,       \* per caller: idle, or sleeping until its timer fires
  srCalls,         \* calls issued so far
  srReturns,       \* history: Date.now() at each return, in order
  \* ---- ConfigManager ----
  cmConfig,        \* this.config
  cmFile,          \* the configuration last written to configPath
  cmOps,           \* calls made so far
  cmLast,          \* history: the last call, and whether and why it threw
  cmMerged         \* what the last getMergedSettingsForWebsite() returned

clVars == <<maxConcurrency, activeCount, pendingQueue, taskState, submitted,
            started, waiters, dropped>>

rlVars == <<now, rlMaxTokens, refillRate, tokens, lastRefill, consumers, callCount,
            granted, openCalls, callLog>>

rtVars == <<rtOpts, rtPc, attempt, lastError, regexLastIndex, rtResult, fnCalls,
            thrownLog, onRetryLog, delays, fnValues>>

slVars == <<slKind, slOpts, slPc, slAttempt, slLastError, slResult, slCalls,
            slThrown, slValues, slDelays>>

arVars == <<arCfg, arNow, arErrTenths, arSuccess, arLastErrorTime, arLimiters,
            arCallers, arIssued, arStretch>>

sbVars == <<sbOpts, sbPc, sbRefs, sbOpen, sbCloseCalls, sbCloseLog, sbEvents>>

oaVars == <<oaContent, oaPc, oaSpec, oaIsValid, oaErrors, oaResult, oaStages, oaChecks>>

swVars == <<swQuery, swSites, swPc, swIndex, swResults, swReturned, swFetchLog>>

cpVars == <<cpKind, cpHtml, cpOptions, cpConverted, cpPc, cpResult, cpMeasured>>

\* content processing, SimpleRateLimit / rateLimit() and ConfigManager
srVars == <<srKind, srInterval, srNow, srLastCall, srCallers, srCalls, srReturns>>

cmVars == <<cmConfig, cmFile, cmOps, cmLast, cmMerged>>

newVars == <<cpVars, srVars, cmVars>>

\* the components other than ConcurrencyLimiter, RateLimiter and retry
extVars == <<slVars, arVars, sbVars, oaVars, swVars, newVars>>

\* every component but the three of newVars
oldVars == <<clVars, rlVars, rtVars, slVars, arVars, sbVars, oaVars, swVars>>

vars == <<clVars, rlVars, rtVars, extVars>>

Tasks == 1..NumTasks

\* ------------------------------------------------------------------------
\* ConcurrencyLimiter
\* ------------------------------------------------------------------------
\* new: not yet submitted;  pending: execute pushed on pendingQueue;
\* running: inside `await fn()`;  settledOk / settledErr: fn's promise has
\* settled and the continuation of execute() is queued as a microtask;
\* resolved / rejected: the promise run() returned has settled.
TaskStates ==
  {"new", "pending", "running", "settledOk", "settledErr", "resolved", "rejected"}

\* rate-limiter.ts:53-56: the state after `new ConcurrencyLimiter(maxConcurrency)`
CLInitWith(mc) ==
  /\ maxConcurrency = mc
  /\ activeCount = 0
  /\ pendingQueue = <<>>
  /\ taskState = [t \in Tasks |-> "new"]
  /\ submitted = 0
  /\ started = <<>>
  /\ waiters = {}
  /\ dropped = {}

\* faulty variant (sensitivity of C1): a task is admitted when the limiter is full
SlotFreeMutant(ac) == ac <= maxConcurrency
\* rate-limiter.ts:73 and :82: the slot test `this.activeCount < this.maxConcurrency`
SlotFree(ac) == ac < maxConcurrency

\* faulty variant (sensitivity of C2): pop() instead of shift()
ShiftMutant(q) == [next |-> q[Len(q)], rest |-> SubSeq(q, 1, Len(q) - 1)]
\* rate-limiter.ts:83: `this.pendingQueue.shift()` -- the oldest waiter and the rest
Shift(q) == [next |-> Head(q), rest |-> Tail(q)]

\* faulty variant (sensitivity of C3): the slot is released on success only
ReleaseMutant(ac, outcome) == IF outcome = "settledOk" THEN ac - 1 ELSE ac
\* rate-limiter.ts:67-68: the finally block's `this.activeCount--`, taken on
\* both outcomes of `await fn()`
Release(ac, outcome) == ac - 1

\* faulty variant (sensitivity of C26): a freed slot is not handed to a waiter
ProcessQueueIdle(ac, q) == [next |-> 0, queue |-> q]
\* rate-limiter.ts:81-88: processQueue() run with activeCount = ac; the result
\* names the task whose execute() it calls (0: none)
ProcessQueue(ac, q) ==
  IF Len(q) > 0 /\ SlotFree(ac)
    THEN [next |-> Shift(q).next, queue |-> Shift(q).rest]
    ELSE [next |-> 0, queue |-> q]

\* rate-limiter.ts:58-79: run(fn).  The promise executor runs synchronously:
\* either execute() starts (activeCount++, fn() called, suspended at await) or
\* execute is pushed on pendingQueue.
Run ==
  /\ submitted < NumTasks
  /\ LET t == submitted + 1 IN
       /\ submitted' = t
       /\ IF SlotFree(activeCount)
            THEN /\ activeCount' = activeCount + 1
                 /\ taskState' = [taskState EXCEPT ![t] = "running"]
                 /\ started' = Append(started, t)
                 /\ UNCHANGED <<pendingQueue, waiters>>
            ELSE /\ pendingQueue' = Append(pendingQueue, t)
                 /\ taskState' = [taskState EXCEPT ![t] = "pending"]
                 /\ waiters' = waiters \cup {t}
                 /\ UNCHANGED <<activeCount, started>>
  /\ UNCHANGED <<maxConcurrency, dropped, rlVars, rtVars, extVars>>

\* rate-limiter.ts:63: the promise fn() returned settles, by success or failure
FnSettles(t, outcome) ==
  /\ taskState[t] = "running"
  /\ taskState' = [taskState EXCEPT ![t] = outcome]
  /\ UNCHANGED <<maxConcurrency, activeCount, pendingQueue, submitted, started,
                 waiters, dropped, rlVars, rtVars, extVars>>

\* rate-limiter.ts:64-69: the continuation of execute(): resolve or reject the
\* caller's promise, then the finally block: activeCount-- and processQueue(),
\* which may call the next waiter's execute() (activeCount++ at line 61).
Complete(t) ==
  /\ taskState[t] \in {"settledOk", "settledErr"}
  /\ LET ac == Release(activeCount, taskState[t])
         pq == ProcessQueue(ac, pendingQueue)
         mine == IF taskState[t] = "settledOk" THEN "resolved" ELSE "rejected"
     IN  /\ pendingQueue' = pq.queue
         /\ IF pq.next = 0
              THEN /\ activeCount' = ac
                   /\ taskState' = [taskState EXCEPT ![t] = mine]
                   /\ started' = started
              ELSE /\ activeCount' = ac + 1
                   /\ taskState' = [taskState EXCEPT ![t] = mine, ![pq.next] = "running"]
                   /\ started' = Append(started, pq.next)
  /\ UNCHANGED <<maxConcurrency, submitted, waiters, dropped, rlVars, rtVars, extVars>>

\* faulty variant (sensitivity of C27): the oldest waiter stays in the queue
ClearedButHead(q) == SubSeq(q, 1, 1)
\* rate-limiter.ts:99: `this.pendingQueue = []`
Cleared(q) == <<>>

\* rate-limiter.ts:98-100: clearQueue()
ClearQueue ==
  /\ pendingQueue # <<>>
  /\ pendingQueue' = Cleared(pendingQueue)
  /\ dropped' = dropped \cup {pendingQueue[i] : i \in 1..Len(pendingQueue)}
  /\ UNCHANGED <<maxConcurrency, activeCount, taskState, submitted, started, waiters,
                 rlVars, rtVars, extVars>>

\* limiters constructed with maxConcurrency 0..MaxConcurrencyBound
CLInit == \E mc \in 0..MaxConcurrencyBound : CLInitWith(mc)

CLNext ==
  \/ Run
  \/ \E t \in Tasks : FnSettles(t, "settledOk")
  \/ \E t \in Tasks : FnSettles(t, "settledErr")
  \/ \E t \in Tasks : Complete(t)
  \/ ClearQueue

\* The limiter on which clearQueue() is not called, with maxConcurrency >= 1
LiveInitCL == \E mc \in 1..MaxConcurrencyBound : CLInitWith(mc)

LiveNext ==
  \/ Run
  \/ \E t \in Tasks : FnSettles(t, "settledOk")
  \/ \E t \in Tasks : FnSettles(t, "settledErr")
  \/ \E t \in Tasks : Complete(t)

\* ------------------------------------------------------------------------
\* RateLimiter
\* ------------------------------------------------------------------------
Consumers == 1..NumConsumers

\* rate-limiter.ts:17 `/ 1000` and :36 `* 1000`: milliseconds per second
MsPerSecond == 1000

\* refillRate is a JavaScript number; the model keeps it as a rational with
\* this denominator (refillRate = 500 is 0.5 tokens per second)
RateDenominator == MsPerSecond

\* the refill rates limiters are constructed with: 0.5, 1, 1.5 and 2 tokens per second
Rates == {500, 1000, 1500, 2000}

Min(a, b) == IF a <= b THEN a ELSE b

\* ceil(a / b) for a >= 0, b > 0
CeilDiv(a, b) == (a + b - 1) \div b

\* rate-limiter.ts:17-18: Math.floor(((now - lastRefill) / 1000) * refillRate)
TokensToAdd(nowT, last) ==
  ((nowT - last) * refillRate) \div (MsPerSecond * RateDenominator)

\* faulty variant (sensitivity of C4): no Math.min with maxTokens
RefillNoCap(tok, last, nowT) ==
  IF TokensToAdd(nowT, last) > 0
    THEN [tokens |-> tok + TokensToAdd(nowT, last), lastRefill |-> nowT]
    ELSE [tokens |-> tok, lastRefill |-> last]
\* faulty variant (sensitivity of C6): lastRefill is not advanced
RefillKeepsStamp(tok, last, nowT) ==
  IF TokensToAdd(nowT, last) > 0
    THEN [tokens |-> Min(rlMaxTokens, tok + TokensToAdd(nowT, last)), lastRefill |-> last]
    ELSE [tokens |-> tok, lastRefill |-> last]
\* faulty variant (sensitivity of C23): lastRefill advances on every call
RefillAlwaysStamps(tok, last, nowT) ==
  [tokens |-> Min(rlMaxTokens, tok + TokensToAdd(nowT, last)), lastRefill |-> nowT]
\* rate-limiter.ts:15-24: refill() at time nowT; the tokens and lastRefill it leaves
Refill(tok, last, nowT) ==
  IF TokensToAdd(nowT, last) > 0
    THEN [tokens |-> Min(rlMaxTokens, tok + TokensToAdd(nowT, last)), lastRefill |-> nowT]
    ELSE [tokens |-> tok, lastRefill |-> last]

\* faulty variant (sensitivity of C5): the delay is not converted to milliseconds
WaitTimeInSeconds(n, tok) == CeilDiv((n - tok) * RateDenominator, refillRate)
\* rate-limiter.ts:35-38: the timer armed for (tokensNeeded / refillRate) * 1000
\* ms.  Date.now() counts whole milliseconds and a timer does not fire before
\* its delay has passed, so the call resumes no earlier than the delay rounded up.
WaitTime(n, tok) == CeilDiv((n - tok) * RateDenominator * MsPerSecond, refillRate)

IdleConsumer == [pc |-> "idle", n |-> 0, wake |-> 0]

\* rate-limiter.ts:8-13: the state after `new RateLimiter(mt, rate)` at time 0
RLInitWith(mt, rate) ==
  /\ now = 0
  /\ rlMaxTokens = mt
  /\ refillRate = rate
  /\ tokens = mt
  /\ lastRefill = 0
  /\ consumers = [c \in Consumers |-> IdleConsumer]
  /\ callCount = 0
  /\ granted = 0
  /\ openCalls = [c \in Consumers |-> [issued |-> 0, sleeps |-> 0]]
  /\ callLog = <<>>

\* rate-limiter.ts:26-40: one synchronous run of consume(n) for consumer c:
\* refill, then either take the tokens and return, or arm the timer and
\* suspend at line 38.
ConsumeBody(c, n) ==
  LET r == Refill(tokens, lastRefill, now) IN
    /\ lastRefill' = r.lastRefill
    /\ IF r.tokens >= n
         THEN /\ tokens' = r.tokens - n
              /\ consumers' = [consumers EXCEPT ![c] = IdleConsumer]
              /\ granted' = granted + n
         ELSE /\ tokens' = r.tokens
              /\ consumers' = [consumers EXCEPT ![c] =
                   [pc |-> "sleeping", n |-> n, wake |-> now + WaitTime(n, r.tokens)]]
              /\ granted' = granted
    /\ UNCHANGED <<now, rlMaxTokens, refillRate, clVars, rtVars, extVars>>

\* rate-limiter.ts:26: consumer c calls consume(n)
Consume(c, n) ==
  /\ consumers[c].pc = "idle"
  /\ callCount' = callCount + 1
  /\ ConsumeBody(c, n)

\* rate-limiter.ts:38-39: the timer of consumer c has fired (at its deadline or
\* later); the call resumes with the recursive consume(tokens)
Wake(c) ==
  /\ consumers[c].pc = "sleeping"
  /\ now >= consumers[c].wake
  /\ callCount' = callCount
  /\ ConsumeBody(c, consumers[c].n)

\* rate-limiter.ts:42-45: getAvailableTokens()
GetAvailableTokens ==
  /\ LET r == Refill(tokens, lastRefill, now) IN
       /\ tokens' = r.tokens
       /\ lastRefill' = r.lastRefill
  /\ UNCHANGED <<now, rlMaxTokens, refillRate, consumers, callCount, granted,
                 openCalls, callLog, clVars, rtVars, extVars>>

\* the clock is observed every half second
TickMs == MsPerSecond \div 2

\* rate-limiter.ts:16: Date.now() advances
Tick ==
  /\ now + TickMs <= MaxNow
  /\ now' = now + TickMs
  /\ UNCHANGED <<rlMaxTokens, refillRate, tokens, lastRefill, consumers, callCount,
                 granted, openCalls, callLog, clVars, rtVars, extVars>>

\* a bucket shared by several consumers asking for 0..MaxRequest tokens
RLInit == \E mt \in 0..MaxTokensBound : \E rate \in Rates : RLInitWith(mt, rate)

RLNext ==
  \/ \E c \in Consumers : \E n \in 0..MaxRequest :
       /\ callCount < MaxCalls
       /\ Consume(c, n)
       /\ UNCHANGED <<openCalls, callLog>>
  \/ \E c \in Consumers : Wake(c) /\ UNCHANGED <<openCalls, callLog>>
  \/ GetAvailableTokens
  \/ Tick

\* The history of one caller's calls: when each was issued, how often it was
\* suspended, for when its last timer was armed, and when it returned.
LogStep(c, issuedAt, sleptBefore) ==
  IF consumers'[c].pc = "idle"
    THEN /\ callLog' = Append(callLog,
              [issued |-> issuedAt, returned |-> now, sleeps |-> sleptBefore,
               due |-> IF sleptBefore = 0 THEN issuedAt ELSE consumers[c].wake])
         /\ openCalls' = openCalls
    ELSE /\ callLog' = callLog
         /\ openCalls' = [openCalls EXCEPT ![c] =
              [issued |-> issuedAt, sleeps |-> sleptBefore + 1]]

\* one caller issuing consume(1) calls one after the other on a fresh bucket
BurstInit == \E mt \in 1..BurstTokensBound : \E rate \in Rates : RLInitWith(mt, rate)

BurstNext ==
  \/ (callCount <= rlMaxTokens /\ Consume(1, 1) /\ LogStep(1, now, 0))
  \/ (Wake(1) /\ LogStep(1, openCalls[1].issued, openCalls[1].sleeps))
  \/ Tick

\* Finitely many consume() calls, issued during the first second by two
\* consumers, for up to one token more than the bucket holds.  The clock is
\* observed for as long as a call that the bucket can serve is waiting, and
\* a timer that is due fires before the clock is observed again.
LiveConsumers == {c \in Consumers : c <= 2}

Servable(c) == consumers[c].pc = "sleeping" /\ consumers[c].n <= rlMaxTokens

RLLiveMaxNow == 2 * MaxCalls * MaxNow

\* the calls are issued during the first second
LastIssue == MsPerSecond

LiveTick ==
  /\ \E c \in LiveConsumers : Servable(c)
  /\ \A c \in LiveConsumers : consumers[c].pc = "sleeping" => now < consumers[c].wake
  /\ now + TickMs <= RLLiveMaxNow
  /\ now' = now + TickMs
  /\ UNCHANGED <<rlMaxTokens, refillRate, tokens, lastRefill, consumers, callCount,
                 granted, openCalls, callLog, clVars, rtVars, extVars>>

RLLiveInit == \E mt \in 1..MaxTokensBound : \E rate \in Rates : RLInitWith(mt, rate)

RLLiveNext ==
  \/ \E c \in LiveConsumers : \E n \in 1..(rlMaxTokens + 1) :
       /\ callCount < MaxCalls
       /\ now <= LastIssue
       /\ Consume(c, n)
       /\ UNCHANGED <<openCalls, callLog>>
  \/ \E c \in LiveConsumers : Wake(c) /\ UNCHANGED <<openCalls, callLog>>
  \/ GetAvailableTokens
  \/ LiveTick

\* ------------------------------------------------------------------------
\* retry / retryOnError
\* ------------------------------------------------------------------------
\* Strings are sequences of characters.  An Error has a name and a message.
Errors ==
  { [name |-> <<"T">>, message |-> <<"a", "b">>],
    [name |-> <<"N">>, message |-> <<"b", "a">>],
    [name |-> <<"X">>, message |-> <<"c">>] }

\* `let lastError: Error` before its first assignment (part_000:28, :95)
NoError == [name |-> <<>>, message |-> <<>>]

\* values fn() resolves with
Values == {"v1", "v2"}

\* the retryableErrors lists retryOnError() is called with: strings and
\* regular expressions (a literal source, with or without the g flag)
PatternLists ==
  { << [kind |-> "string", text |-> <<"a">>, global |-> FALSE] >>,
    << [kind |-> "regex", text |-> <<"b">>, global |-> TRUE] >>,
    << [kind |-> "string", text |-> <<"N">>, global |-> FALSE],
       [kind |-> "regex", text |-> <<"c">>, global |-> FALSE] >> }

\* options the calls are made with
Factors == {1, 2}
MinTimeouts == {10, 100}
MaxTimeouts == {150}
\* Math.random() (part_000:54, :129), in tenths: 0, 0.5 and 0.9
Randoms == {0, 5, 9}

\* s has t as a substring starting at 1-based position i
OccursAt(s, t, i) == i >= 1 /\ i + Len(t) - 1 <= Len(s) /\ SubSeq(s, i, i + Len(t) - 1) = t

\* String.prototype.includes (part_000:88)
Includes(s, t) == \E i \in 1..(Len(s) + 1) : OccursAt(s, t, i)

\* RegExp.prototype.test (part_000:90) of a literal-source regex on s, with the
\* regex's lastIndex li (0-based): a regex with the g flag searches from
\* lastIndex and moves it past the match, or resets it to 0 on failure; without
\* the flag lastIndex is neither read nor written.
RegexTest(pat, s, li) ==
  LET from == IF pat.global THEN li + 1 ELSE 1
      hits == {i \in from..(Len(s) + 1) : OccursAt(s, pat.text, i)}
      first == CHOOSE i \in hits : \A j \in hits : i <= j
  IN  IF hits # {}
        THEN [result |-> TRUE,
              lastIndex |-> IF pat.global THEN first - 1 + Len(pat.text) ELSE li]
        ELSE [result |-> FALSE, lastIndex |-> IF pat.global THEN 0 ELSE li]

\* part_000:87-91: one pattern applied to an error; `||` evaluates its right
\* side only when the left side is false
PatternMatches(pat, err, li) ==
  IF pat.kind = "string"
    THEN [result |-> Includes(err.message, pat.text) \/ err.name = pat.text,
          lastIndex |-> li]
    ELSE LET m == RegexTest(pat, err.message, li) IN
           IF m.result THEN m ELSE RegexTest(pat, err.name, m.lastIndex)

\* part_000:85-93: isRetryableError: Array.prototype.some over the patterns
\* from index i on, stopping at the first that matches; lis holds every
\* pattern's lastIndex
RECURSIVE SomeMatches(_, _, _, _)
SomeMatches(pats, err, i, lis) ==
  IF i > Len(pats)
    THEN [result |-> FALSE, lastIndex |-> lis]
    ELSE LET m == PatternMatches(pats[i], err, lis[i])
             lis2 == [lis EXCEPT ![i] = m.lastIndex]
         IN  IF m.result
               THEN [result |-> TRUE, lastIndex |-> lis2]
               ELSE SomeMatches(pats, err, i + 1, lis2)

\* faulty variant (sensitivity of C10): every error is taken as retryable
IsRetryableAlways(err, lis) == [result |-> TRUE, lastIndex |-> lis]
\* part_000:104: the test that sends an error of retryOnError() to line 105;
\* retry() has no such test
IsRetryableError(err, lis) ==
  IF rtOpts.filtered
    THEN SomeMatches(rtOpts.patterns, err, 1, lis)
    ELSE [result |-> TRUE, lastIndex |-> lis]

RECURSIVE Pow(_, _)
\* Math.pow(b, e) for a natural exponent
Pow(b, e) == IF e = 0 THEN 1 ELSE b * Pow(b, e - 1)

\* faulty variant (sensitivity of C8): the exponent is the next attempt's index
BaseDelayNextAttempt(att) ==
  Min(rtOpts.minTimeout * Pow(rtOpts.factor, att + 1), rtOpts.maxTimeout)
\* part_000:51 and :123-126: Math.min(minTimeout * Math.pow(factor, attempt), maxTimeout)
BaseDelay(att) ==
  Min(rtOpts.minTimeout * Pow(rtOpts.factor, att), rtOpts.maxTimeout)

\* part_000:53-55 and :128-130: delay * (Math.random() + 0.5), kept as the
\* base delay and the scale in tenths (10 when randomize is off)
DelayScale(rnd) == IF rtOpts.randomize THEN rnd + 5 ELSE 10

\* faulty variant (sensitivity of C7): the last attempt is not recognised
IsLastAttemptOffByOne(att) == att = rtOpts.retries + 1
\* part_000:37 and :109: `attempt === retries`
IsLastAttempt(att) == att = rtOpts.retries

\* the decimal digits of a small natural, as `${retries}` renders it
NumStr(n) ==
  LET digit == <<"0", "1", "2", "3", "4", "5", "6", "7", "8", "9">> IN
    IF n < 10 THEN <<digit[n + 1]>> ELSE <<digit[(n \div 10) + 1], digit[(n % 10) + 1]>>

\* faulty variant (sensitivity of C9): the first error is wrapped, not the last
RetryErrorOfFirst(att, err) ==
  LET first == IF thrownLog = <<>> THEN err ELSE thrownLog[1].error IN
    [kind |-> "RetryError",
     message |-> <<"[failed, retried] ">> \o NumStr(rtOpts.retries) \o <<" [times]: ">>
                 \o first.message,
     attempts |-> att + 1,
     lastError |-> first]
\* part_000:10-20, :38-42 and :110-114: the RetryError thrown at the last attempt;
\* the fixed parts of its message template are kept as two opaque tokens
RetryError(att, err) ==
  [kind |-> "RetryError",
   message |-> <<"[failed, retried] ">> \o NumStr(rtOpts.retries) \o <<" [times]: ">>
               \o err.message,
   attempts |-> att + 1,
   lastError |-> err]

\* an error of fn that leaves the function as it was thrown (part_000:105,
\* and the `throw lastError!` after the loop, :63 and :136)
RawError(err) == [kind |-> "raw", error |-> err]

\* the state before retry(fn, options) / retryOnError(fn, options, patterns)
RTInitWith(opts) ==
  /\ rtOpts = opts
  /\ rtPc = "idle"
  /\ attempt = 0
  /\ lastError = NoError
  /\ regexLastIndex = [i \in 1..Len(opts.patterns) |-> 0]
  /\ rtResult = [kind |-> "none"]
  /\ fnCalls = 0
  /\ thrownLog = <<>>
  /\ onRetryLog = <<>>
  /\ delays = <<>>
  /\ fnValues = <<>>

\* part_000:30-32 and :97-99: the loop test for attempt att and, when it
\* passes, the invocation of fn, suspended at `await fn()`
LoopTurn(att) ==
  /\ attempt' = att
  /\ IF att <= rtOpts.retries
       THEN /\ rtPc' = "awaitFn"
            /\ fnCalls' = fnCalls + 1
            /\ rtResult' = rtResult
       ELSE /\ rtPc' = "rejected"
            /\ fnCalls' = fnCalls
            /\ rtResult' = RawError(lastError)
  /\ UNCHANGED <<rtOpts, lastError, regexLastIndex, thrownLog, onRetryLog, delays,
                 fnValues, clVars, rlVars, extVars>>

\* part_000:22-32 and :80-99: the call of retry() / retryOnError()
RtStart ==
  /\ rtPc = "idle"
  /\ LoopTurn(0)

\* part_000:32 and :99: fn's promise resolves and the function returns its value
RtFnResolves(v) ==
  /\ rtPc = "awaitFn"
  /\ rtPc' = "resolved"
  /\ rtResult' = [kind |-> "value", value |-> v]
  /\ fnValues' = Append(fnValues, v)
  /\ UNCHANGED <<rtOpts, attempt, lastError, regexLastIndex, fnCalls, thrownLog,
                 onRetryLog, delays, clVars, rlVars, extVars>>

\* mutant of OnRetryCall: the 0-based loop index is passed
OnRetryCallZeroBased(err, att) == [error |-> err, attempt |-> att]

\* part_000:47 and :119: onRetry(lastError, attempt + 1)
OnRetryCall(err, att) == [error |-> err, attempt |-> att + 1]

\* part_000:33-58 and :100-132: fn's promise rejects with err: the catch block,
\* up to the timer armed at its end; rnd is the value Math.random() returns
RtFnRejects(err, rnd) ==
  /\ rtPc = "awaitFn"
  /\ lastError' = err
  /\ LET judged == IsRetryableError(err, regexLastIndex) IN
       /\ regexLastIndex' = judged.lastIndex
       /\ thrownLog' = Append(thrownLog, [error |-> err, retryable |-> judged.result])
       /\ IF ~judged.result
            THEN /\ rtPc' = "rejected"
                 /\ rtResult' = RawError(err)
                 /\ UNCHANGED <<onRetryLog, delays>>
            ELSE IF IsLastAttempt(attempt)
              THEN /\ rtPc' = "rejected"
                   /\ rtResult' = RetryError(attempt, err)
                   /\ UNCHANGED <<onRetryLog, delays>>
              ELSE /\ rtPc' = "sleeping"
                   /\ rtResult' = rtResult
                   /\ onRetryLog' = IF rtOpts.onRetry
                                      THEN Append(onRetryLog, OnRetryCall(err, attempt))
                                      ELSE onRetryLog
                   /\ delays' = Append(delays,
                        [base |-> BaseDelay(attempt), scale |-> DelayScale(rnd)])
  /\ UNCHANGED <<rtOpts, attempt, fnCalls, fnValues, clVars, rlVars, extVars>>

\* part_000:58, :30 and :132, :97: the backoff timer fires, attempt++ and the
\* loop takes its next turn
RtTimer ==
  /\ rtPc = "sleeping"
  /\ LoopTurn(attempt + 1)

OptionSets ==
  [retries : 0..MaxRetries, factor : Factors, minTimeout : MinTimeouts,
   maxTimeout : MaxTimeouts, randomize : BOOLEAN, onRetry : BOOLEAN]

\* retry(fn, options): no filter; retryOnError(fn, options, retryableErrors)
RTInit ==
  \E o \in OptionSets :
    \/ RTInitWith([retries |-> o.retries, factor |-> o.factor,
                   minTimeout |-> o.minTimeout, maxTimeout |-> o.maxTimeout,
                   randomize |-> o.randomize, onRetry |-> o.onRetry,
                   filtered |-> FALSE, patterns |-> <<>>])
    \/ \E ps \in PatternLists :
         RTInitWith([retries |-> o.retries, factor |-> o.factor,
                     minTimeout |-> o.minTimeout, maxTimeout |-> o.maxTimeout,
                     randomize |-> o.randomize, onRetry |-> o.onRetry,
                     filtered |-> TRUE, patterns |-> ps])

RTNext ==
  \/ RtStart
  \/ \E v \in Values : RtFnResolves(v)
  \/ \E err \in Errors : \E rnd \in Randoms : RtFnRejects(err, rnd)
  \/ RtTimer

\* ------------------------------------------------------------------------
\* fetchWithRetry (src/src/enhanced-fetcher.ts) and simpleRetry (part_002)
\* ------------------------------------------------------------------------
SlKinds == {"fetchWithRetry", "simpleRetry"}

\* the initial delays the loops are called with (ms)
SlDelays == {100, 1000}

\* the state before fetchWithRetry(url, options, retryOptions) /
\* simpleRetry(fn, retries, delay); simpleRetry doubles its delay (part_002:34)
SLInitWith(kind, retries, delay, factor) ==
  /\ slKind = kind
  /\ slOpts = [retries |-> retries, delay |-> delay, factor |-> factor]
  /\ slPc = "idle"
  /\ slAttempt = 0
  /\ slLastError = NoError
  /\ slResult = [kind |-> "none"]
  /\ slCalls = 0
  /\ slThrown = <<>>
  /\ slValues = <<>>
  /\ slDelays = <<>>

\* faulty variant (sensitivity of C11): the loop stops one attempt early
SlLoopTestStrict(att) == att < slOpts.retries
\* enhanced-fetcher.ts:88 `attempt <= retryOptions.maxRetries`, part_002:27
\* `i <= retries`
SlLoopTest(att) == att <= slOpts.retries

\* enhanced-fetcher.ts:118 and part_002:39: what is thrown after the loop; the
\* fixed part of the message of enhanced-fetcher.ts:118 is kept as one token
SlFinalError(err) ==
  IF slKind = "fetchWithRetry"
    THEN [kind |-> "Error", message |-> <<"[all retries failed]: ">> \o err.message]
    ELSE RawError(err)

\* enhanced-fetcher.ts:88-92 and part_002:27-29: the loop test for attempt att
\* and, when it passes, the request, suspended at its await; when it fails,
\* the throw after the loop
SlLoopTurn(att, err) ==
  /\ slAttempt' = att
  /\ IF SlLoopTest(att)
       THEN /\ slPc' = "awaitFn"
            /\ slCalls' = slCalls + 1
            /\ slResult' = slResult
       ELSE /\ slPc' = "rejected"
            /\ slCalls' = slCalls
            /\ slResult' = SlFinalError(err)

\* the call of fetchWithRetry() / simpleRetry()
SlStart ==
  /\ slPc = "idle"
  /\ SlLoopTurn(0, slLastError)
  /\ UNCHANGED <<slKind, slOpts, slLastError, slThrown, slValues, slDelays,
                 clVars, rlVars, rtVars, newVars, arVars, sbVars, oaVars, swVars>>

\* enhanced-fetcher.ts:92-106 and part_002:29: the request resolves and the
\* function returns its value (response.data, fn's value)
SlFnResolves(v) ==
  /\ slPc = "awaitFn"
  /\ slPc' = "resolved"
  /\ slResult' = [kind |-> "value", value |-> v]
  /\ slValues' = Append(slValues, v)
  /\ UNCHANGED <<slKind, slOpts, slAttempt, slLastError, slCalls, slThrown,
                 slDelays, clVars, rlVars, rtVars, newVars, arVars, sbVars, oaVars, swVars>>

\* enhanced-fetcher.ts:111 `delay * Math.pow(backoffFactor, attempt)` and
\* part_002:34 `delay * Math.pow(2, i)`
SlDelay(att) == slOpts.delay * Pow(slOpts.factor, att)

\* enhanced-fetcher.ts:107-118 and part_002:30-39: the request rejects with
\* err: the catch block; before the last attempt it arms the timer, at the
\* last attempt the loop ends in the same run
SlFnRejects(err) ==
  /\ slPc = "awaitFn"
  /\ slLastError' = err
  /\ slThrown' = Append(slThrown, err)
  /\ IF slAttempt < slOpts.retries
       THEN /\ slPc' = "sleeping"
            /\ slDelays' = Append(slDelays, SlDelay(slAttempt))
            /\ UNCHANGED <<slAttempt, slCalls, slResult>>
       ELSE /\ SlLoopTurn(slAttempt + 1, err)
            /\ slDelays' = slDelays
  /\ UNCHANGED <<slKind, slOpts, slValues, clVars, rlVars, rtVars, newVars, arVars, sbVars, oaVars, swVars>>

\* enhanced-fetcher.ts:113, :88 and part_002:34, :27: the timer fires and the loop takes
\* its next turn
SlTimer ==
  /\ slPc = "sleeping"
  /\ SlLoopTurn(slAttempt + 1, slLastError)
  /\ UNCHANGED <<slKind, slOpts, slLastError, slThrown, slValues, slDelays,
                 clVars, rlVars, rtVars, newVars, arVars, sbVars, oaVars, swVars>>

SLInit ==
  \E r \in 0..MaxRetries : \E d \in SlDelays :
    \/ \E f \in Factors : SLInitWith("fetchWithRetry", r, d, f)
    \/ SLInitWith("simpleRetry", r, d, 2)

SLNext ==
  \/ SlStart
  \/ \E v \in Values : SlFnResolves(v)
  \/ \E err \in Errors : SlFnRejects(err)
  \/ SlTimer

\* ------------------------------------------------------------------------
\* AdaptiveRateLimiter (src/src/utils/rate-limiter.ts, lines 127-190)
\* ------------------------------------------------------------------------
\* bounds: onError(), onSuccess() and consume() calls made in all
ArMaxErrors == 3
ArMaxSuccesses == 2
ArMaxConsumes == 3

\* rate-limiter.ts:132: private adaptationWindow = 60000
AdaptationWindow == 60000

\* Date.now() at construction: an epoch time, far beyond the adaptation window
ConstructedAt == 2 * AdaptationWindow
DateNow == ConstructedAt + arNow

\* the clock is followed for two seconds
ArMaxNow == 2 * MsPerSecond

\* errorCount moves in steps of 1 and 0.1 (rate-limiter.ts:151, :155)
Tenths == 10

\* a refill rate (tokens per second) is kept as a fraction
Rate(n, d) == [num |-> n, den |-> d]

\* rate-limiter.ts:8-13: new RateLimiter(maxTokens, rate) at Date.now() = t
NewLimiter(mt, rate, t) ==
  [maxTokens |-> mt, rate |-> rate, tokens |-> mt, lastRefill |-> t]

\* rate-limiter.ts:15-24: refill() of limiter l at Date.now() = t
LimRefill(l, t) ==
  LET tokensToAdd == ((t - l.lastRefill) * l.rate.num) \div (MsPerSecond * l.rate.den) IN
    IF tokensToAdd > 0
      THEN [l EXCEPT !.tokens = Min(l.maxTokens, l.tokens + tokensToAdd),
                     !.lastRefill = t]
      ELSE l

\* rate-limiter.ts:35-36: (tokensNeeded / refillRate) * 1000, rounded up to
\* whole milliseconds as in WaitTime
LimWaitTime(l, n) == CeilDiv((n - l.tokens) * l.rate.den * MsPerSecond, l.rate.num)

\* rate-limiter.ts:26-40: one synchronous run of l.consume(1) at Date.now() = t:
\* the limiter it leaves, and whether the call returned or for when its timer
\* is armed
LimConsume(l, t) ==
  LET r == LimRefill(l, t) IN
    IF r.tokens >= 1
      THEN [lim |-> [r EXCEPT !.tokens = r.tokens - 1], returned |-> TRUE, wake |-> 0]
      ELSE [lim |-> r, returned |-> FALSE, wake |-> t + LimWaitTime(r, 1)]

\* rate-limiter.ts:164: errorCount >= errorThreshold
ErrorState(errTenths) == errTenths >= Tenths * arCfg.errorThreshold

\* rate-limiter.ts:166-167: baseRate * Math.min(0.1, 1 / (errorCount - errorThreshold + 1))
SlowRate(errTenths) ==
  LET excess == errTenths - Tenths * arCfg.errorThreshold IN
    \* 1 / (excess/10 + 1) = 10 / (excess + 10), below 1/10 when excess + 10 > 100
    IF Tenths * Tenths < excess + Tenths
      THEN Rate(arCfg.baseRate * Tenths, excess + Tenths)
      ELSE Rate(arCfg.baseRate, Tenths)

\* rate-limiter.ts:171-172: baseRate * Math.min(1, successCount / 20)
RecoveryRate(succ) ==
  IF succ >= 20 THEN Rate(arCfg.baseRate, 1) ELSE Rate(arCfg.baseRate * succ, 20)

\* rate-limiter.ts:160-175: adjustRate() at Date.now() = t: the limiter it
\* makes the base limiter, if any
AdjustRate(t) ==
  IF ErrorState(arErrTenths)
    THEN [replaced |-> TRUE,
          lim |-> NewLimiter(arCfg.maxTokens, SlowRate(arErrTenths), t)]
    ELSE IF t - arLastErrorTime > AdaptationWindow /\ arSuccess > 10
      THEN [replaced |-> TRUE,
            lim |-> NewLimiter(arCfg.maxTokens, RecoveryRate(arSuccess), t)]
      ELSE [replaced |-> FALSE, lim |-> arLimiters[Len(arLimiters)]]

IdleCaller == [pc |-> "idle", lim |-> 0, wake |-> 0]

NoStretch == [open |-> FALSE, since |-> 0, returned |-> 0]

\* The limiters still referenced: the base limiter (the last of lims) and
\* those a suspended call will resume in; the others are garbage.  The
\* suspended calls then refer to the limiters by their new positions.
Collect(lims, callers) ==
  LET live == {Len(lims)} \cup
              {callers[c].lim : c \in {x \in Consumers : callers[x].pc = "sleeping"}}
      pos(i) == Cardinality({j \in live : j <= i})
      at(k) == CHOOSE i \in live : pos(i) = k
  IN  /\ arLimiters' = [k \in 1..Cardinality(live) |-> lims[at(k)]]
      /\ arCallers' = [c \in Consumers |->
           IF callers[c].pc = "sleeping"
             THEN [callers[c] EXCEPT !.lim = pos(callers[c].lim)]
             ELSE callers[c]]

\* a consume() call returns: counted when errorCount is at or above the threshold
CountReturn(did) ==
  arStretch' = IF did /\ arStretch.open
                 THEN [arStretch EXCEPT !.returned = arStretch.returned + 1]
                 ELSE arStretch

\* rate-limiter.ts:134-140: new AdaptiveRateLimiter(baseRate, maxTokens, errorThreshold)
ARInitWith(baseRate, mt, th) ==
  /\ arCfg = [baseRate |-> baseRate, maxTokens |-> mt, errorThreshold |-> th]
  /\ arNow = 0
  /\ arErrTenths = 0
  /\ arSuccess = 0
  /\ arLastErrorTime = 0
  /\ arLimiters = << NewLimiter(mt, Rate(baseRate, 1), ConstructedAt) >>
  /\ arCallers = [c \in Consumers |-> IdleCaller]
  /\ arIssued = 0
  /\ arStretch = NoStretch

\* rate-limiter.ts:142-147: caller c calls consume(): adjustRate(), then
\* baseLimiter.consume(1) up to its return or its suspension at line 38
ArConsume(c) ==
  /\ arCallers[c].pc = "idle"
  /\ arIssued < ArMaxConsumes
  /\ arIssued' = arIssued + 1
  /\ LET adj == AdjustRate(DateNow)
         lims == IF adj.replaced THEN Append(arLimiters, adj.lim) ELSE arLimiters
         cur == Len(lims)
         res == LimConsume(lims[cur], DateNow)
         callers == [arCallers EXCEPT ![c] =
                      IF res.returned THEN IdleCaller
                        ELSE [pc |-> "sleeping", lim |-> cur, wake |-> res.wake]]
     IN  /\ Collect([lims EXCEPT ![cur] = res.lim], callers)
         /\ CountReturn(res.returned)
  /\ UNCHANGED <<arCfg, arNow, arErrTenths, arSuccess, arLastErrorTime,
                 clVars, rlVars, rtVars, newVars, slVars, sbVars, oaVars, swVars>>

\* rate-limiter.ts:38-39: the timer of caller c has fired; the call resumes
\* with the recursive consume(1) on the limiter it was suspended in
ArWake(c) ==
  /\ arCallers[c].pc = "sleeping"
  /\ DateNow >= arCallers[c].wake
  /\ LET i == arCallers[c].lim
         res == LimConsume(arLimiters[i], DateNow)
         callers == [arCallers EXCEPT ![c] =
                      IF res.returned THEN IdleCaller
                        ELSE [pc |-> "sleeping", lim |-> i, wake |-> res.wake]]
     IN  /\ Collect([arLimiters EXCEPT ![i] = res.lim], callers)
         /\ CountReturn(res.returned)
  /\ UNCHANGED <<arCfg, arNow, arErrTenths, arSuccess, arLastErrorTime, arIssued,
                 clVars, rlVars, rtVars, newVars, slVars, sbVars, oaVars, swVars>>

\* rate-limiter.ts:149-152: the body of onSuccess()
OnSuccess ==
  /\ arSuccess' = arSuccess + 1
  /\ arErrTenths' = IF arErrTenths >= 1 THEN arErrTenths - 1 ELSE 0
  /\ arStretch' = IF ErrorState(arErrTenths') THEN arStretch ELSE NoStretch
  /\ UNCHANGED <<arCfg, arNow, arLastErrorTime, arLimiters, arCallers, arIssued,
                 clVars, rlVars, rtVars, newVars, slVars, sbVars, oaVars, swVars>>

\* rate-limiter.ts:149-152: onSuccess()
ArOnSuccess ==
  /\ arSuccess < ArMaxSuccesses
  /\ OnSuccess

\* rate-limiter.ts:154-158: onError()
ArOnError ==
  /\ arErrTenths < Tenths * ArMaxErrors
  /\ arErrTenths' = arErrTenths + Tenths
  /\ arLastErrorTime' = DateNow
  /\ arSuccess' = IF arSuccess >= 1 THEN arSuccess - 1 ELSE 0
  /\ arStretch' = IF ErrorState(arErrTenths') /\ ~arStretch.open
                    THEN [open |-> TRUE, since |-> arNow, returned |-> 0]
                    ELSE arStretch
  /\ UNCHANGED <<arCfg, arNow, arLimiters, arCallers, arIssued,
                 clVars, rlVars, rtVars, newVars, slVars, sbVars, oaVars, swVars>>

\* rate-limiter.ts:161: Date.now() advances by d ms
ArTick(d) ==
  /\ arNow + d <= ArMaxNow
  /\ arNow' = arNow + d
  /\ UNCHANGED <<arCfg, arErrTenths, arSuccess, arLastErrorTime, arLimiters, arCallers,
                 arIssued, arStretch, clVars, rlVars, rtVars, newVars, slVars, sbVars, oaVars, swVars>>

\* the limiters constructed: tokens per second, bucket size, threshold
ArBaseRates == {1, 10}
ArMaxTokensSet == {1, 2}
ArThresholds == {1, 2}

ARInit ==
  \E b \in ArBaseRates : \E mt \in ArMaxTokensSet : \E th \in ArThresholds :
    ARInitWith(b, mt, th)

ARNext ==
  \/ \E c \in Consumers : ArConsume(c)
  \/ \E c \in Consumers : ArWake(c)
  \/ ArOnSuccess
  \/ ArOnError
  \/ ArTick(MsPerSecond)

\* The limiter through a long run of successes: onSuccess() is called up to
\* LongMaxSuccesses times, onError() at most once, and one caller consumes.
LongMaxSuccesses == 12

\* rate-limiter.ts:149-152: onSuccess()
ArLongOnSuccess ==
  /\ arSuccess < LongMaxSuccesses
  /\ OnSuccess

\* rate-limiter.ts:154-158: onError()
ArLongOnError ==
  /\ arLastErrorTime = 0
  /\ ArOnError

ARLongInit == \E b \in ArBaseRates : \E mt \in ArMaxTokensSet : ARInitWith(b, mt, 2)

ARLongNext ==
  \/ ArConsume(1)
  \/ ArWake(1)
  \/ ArLongOnSuccess
  \/ ArLongOnError
  \/ ArTick(MsPerSecond)

\* ------------------------------------------------------------------------
\* StealthBrowser (src/unnamed/part_002, lines 72-312)
\* ------------------------------------------------------------------------
\* the resources of a session, in the order close() visits them (part_002:295-306)
Resources == <<"page", "context", "browser">>

NoRefs == [r \in {"page", "context", "browser"} |-> FALSE]

\* part_002:73-92: new StealthBrowser(options)
SBInitWith(stealth, blocking) ==
  /\ sbOpts = [enableStealth |-> stealth, blocking |-> blocking]
  /\ sbPc = "new"
  /\ sbRefs = NoRefs
  /\ sbOpen = {}
  /\ sbCloseCalls = <<>>
  /\ sbCloseLog = <<>>
  /\ sbEvents = {}

\* part_002:168-171: an await of initialize() rejects: logged and rethrown
InitFails ==
  /\ sbPc' = "idle"
  /\ sbEvents' = sbEvents \cup {"initFailed"}
  /\ UNCHANGED <<sbRefs, sbOpen>>

\* part_002:94-130: initialize() is called: up to the await of launch()
SbInitialize ==
  /\ sbPc = "new"
  /\ sbPc' = "launching"
  /\ UNCHANGED <<sbOpts, sbRefs, sbOpen, sbCloseCalls, sbCloseLog, sbEvents,
                 clVars, rlVars, rtVars, newVars, slVars, arVars, oaVars, swVars>>

\* part_002:124-144: launch() settles; on success this.browser is set and
\* newContext() is awaited
SbLaunched(ok) ==
  /\ sbPc = "launching"
  /\ IF ok
       THEN /\ sbRefs' = [sbRefs EXCEPT !["browser"] = TRUE]
            /\ sbOpen' = sbOpen \cup {"browser"}
            /\ sbPc' = "creatingContext"
            /\ sbEvents' = sbEvents
       ELSE InitFails
  /\ UNCHANGED <<sbOpts, sbCloseCalls, sbCloseLog, clVars, rlVars, rtVars, newVars, slVars, arVars, oaVars, swVars>>

\* part_002:134-151: newContext() settles; on success this.context is set and
\* applyStealth() (addInitScript, part_002:178) or newPage() is awaited
SbContextCreated(ok) ==
  /\ sbPc = "creatingContext"
  /\ IF ok
       THEN /\ sbRefs' = [sbRefs EXCEPT !["context"] = TRUE]
            /\ sbOpen' = sbOpen \cup {"context"}
            /\ sbPc' = IF sbOpts.enableStealth THEN "applyingStealth" ELSE "creatingPage"
            /\ sbEvents' = sbEvents
       ELSE InitFails
  /\ UNCHANGED <<sbOpts, sbCloseCalls, sbCloseLog, clVars, rlVars, rtVars, newVars, slVars, arVars, oaVars, swVars>>

\* part_002:148-151: applyStealth() settles; on success newPage() is awaited
SbStealthApplied(ok) ==
  /\ sbPc = "applyingStealth"
  /\ IF ok
       THEN /\ sbPc' = "creatingPage"
            /\ UNCHANGED <<sbRefs, sbOpen, sbEvents>>
       ELSE InitFails
  /\ UNCHANGED <<sbOpts, sbCloseCalls, sbCloseLog, clVars, rlVars, rtVars, newVars, slVars, arVars, oaVars, swVars>>

\* part_002:151-167: newPage() settles; on success this.page is set and
\* page.route() is awaited, or initialize() returns
SbPageCreated(ok) ==
  /\ sbPc = "creatingPage"
  /\ IF ok
       THEN /\ sbRefs' = [sbRefs EXCEPT !["page"] = TRUE]
            /\ sbOpen' = sbOpen \cup {"page"}
            /\ sbPc' = IF sbOpts.blocking THEN "routing" ELSE "idle"
            /\ sbEvents' = sbEvents
       ELSE InitFails
  /\ UNCHANGED <<sbOpts, sbCloseCalls, sbCloseLog, clVars, rlVars, rtVars, newVars, slVars, arVars, oaVars, swVars>>

\* part_002:155-167: page.route() settles; on success initialize() returns
SbRouted(ok) ==
  /\ sbPc = "routing"
  /\ IF ok
       THEN /\ sbPc' = "idle"
            /\ UNCHANGED <<sbRefs, sbOpen, sbEvents>>
       ELSE InitFails
  /\ UNCHANGED <<sbOpts, sbCloseCalls, sbCloseLog, clVars, rlVars, rtVars, newVars, slVars, arVars, oaVars, swVars>>

\* part_002:214-222: navigate(url) is called: it throws when this.page is
\* null, else awaits the rate limit and the retried navigation
SbNavigate ==
  /\ sbPc = "idle"
  /\ IF sbRefs["page"]
       THEN /\ sbPc' = "navigating"
            /\ sbEvents' = sbEvents
       ELSE /\ sbPc' = "idle"
            /\ sbEvents' = sbEvents \cup {"navFailed"}
  /\ UNCHANGED <<sbOpts, sbRefs, sbOpen, sbCloseCalls, sbCloseLog,
                 clVars, rlVars, rtVars, newVars, slVars, arVars, oaVars, swVars>>

\* part_002:222-241: simpleRetry() settles: navigate() returns, or throws the
\* last error
SbNavigated(ok) ==
  /\ sbPc = "navigating"
  /\ sbPc' = "idle"
  /\ sbEvents' = IF ok THEN sbEvents ELSE sbEvents \cup {"navFailed"}
  /\ UNCHANGED <<sbOpts, sbRefs, sbOpen, sbCloseCalls, sbCloseLog,
                 clVars, rlVars, rtVars, newVars, slVars, arVars, oaVars, swVars>>

\* part_002:295-307: close() from its i-th test on: it awaits the close() of
\* the first resource whose reference is set, or returns when there is none
CloseFrom(i, refs) ==
  LET rest == {j \in i..Len(Resources) : refs[Resources[j]]}
      next == Resources[CHOOSE j \in rest : \A k \in rest : j <= k]
  IN  IF rest = {}
        THEN /\ sbPc' = "closed"
             /\ sbCloseCalls' = sbCloseCalls
        ELSE /\ sbPc' = next
             /\ sbCloseCalls' = Append(sbCloseCalls, next)

\* part_002:293-296: close() is called
SbClose ==
  /\ sbPc = "idle"
  /\ CloseFrom(1, sbRefs)
  /\ UNCHANGED <<sbOpts, sbRefs, sbOpen, sbCloseLog, sbEvents,
                 clVars, rlVars, rtVars, newVars, slVars, arVars, oaVars, swVars>>

\* the position of resource r in close()
PosOf(r) == CHOOSE i \in 1..Len(Resources) : Resources[i] = r

\* part_002:296-310: the awaited close() of resource r settles.  When it
\* resolves the reference is cleared and close() goes on to the next test;
\* when it rejects the catch block logs the error and close() returns
\* (released: whether the rejected close() released the resource all the same)
SbCloseSettled(r, ok, released) ==
  /\ sbPc = r
  /\ r \in {"page", "context", "browser"}
  /\ IF ok
       THEN /\ sbRefs' = [sbRefs EXCEPT ![r] = FALSE]
            /\ sbOpen' = sbOpen \ {r}
            /\ sbCloseLog' = Append(sbCloseLog, r)
            /\ CloseFrom(PosOf(r) + 1, sbRefs')
            /\ sbEvents' = sbEvents
       ELSE /\ sbRefs' = sbRefs
            /\ sbOpen' = IF released THEN sbOpen \ {r} ELSE sbOpen
            /\ sbCloseLog' = sbCloseLog
            /\ sbPc' = "closed"
            /\ sbCloseCalls' = sbCloseCalls
            /\ sbEvents' = sbEvents \cup {"closeThrew"}
  /\ UNCHANGED <<sbOpts, clVars, rlVars, rtVars, newVars, slVars, arVars, oaVars, swVars>>

SBInit == \E stealth \in BOOLEAN : \E blocking \in BOOLEAN : SBInitWith(stealth, blocking)

SBNext ==
  \/ SbInitialize
  \/ \E ok \in BOOLEAN : SbLaunched(ok)
  \/ \E ok \in BOOLEAN : SbContextCreated(ok)
  \/ \E ok \in BOOLEAN : SbStealthApplied(ok)
  \/ \E ok \in BOOLEAN : SbPageCreated(ok)
  \/ \E ok \in BOOLEAN : SbRouted(ok)
  \/ SbNavigate
  \/ \E ok \in BOOLEAN : SbNavigated(ok)
  \/ SbClose
  \/ \E r \in {"page", "context", "browser"} : \E ok \in BOOLEAN :
       \E released \in BOOLEAN : SbCloseSettled(r, ok, released)

\* ------------------------------------------------------------------------
\* parseOpenAPISpec (src/dist/index.js, lines 134-230)
\* ------------------------------------------------------------------------
\* A parsed document, as far as the function looks at it.  An object is known
\* by whether spec.openapi or spec.swagger, spec.info.title and
\* spec.info.version are truthy, and by whether its other fields have the
\* types formatOpenAPISpec() relies on (a `servers` that is a string does not:
\* index.js:249-251 calls forEach on it).  JSON.parse and parseYaml also
\* return null ("null", an empty YAML document) and scalars.
ObjectDocs ==
  [kind : {"object"}, decl : BOOLEAN, title : BOOLEAN, version : BOOLEAN,
   formattable : BOOLEAN, dereferenced : {FALSE}]

NullDoc ==
  [kind |-> "null", decl |-> FALSE, title |-> FALSE, version |-> FALSE,
   formattable |-> FALSE, dereferenced |-> FALSE]

ScalarDoc ==
  [kind |-> "scalar", decl |-> FALSE, title |-> FALSE, version |-> FALSE,
   formattable |-> TRUE, dereferenced |-> FALSE]

\* what JSON.parse(content) and parseYaml(content) can return
ParsedDocs == ObjectDocs \cup {NullDoc, ScalarDoc}

\* what the manual scan of index.js:150-170 builds: an object holding at most
\* openapi, swagger and info.title, info.version, all strings
ScannedDocs == {d \in ObjectDocs : d.formattable}

Throws == [kind |-> "throws"]

\* the contents: what JSON.parse makes of them and, where it throws, what
\* parseYaml makes of them and, where that throws too, what the scan finds
Contents ==
  [json : ParsedDocs, yaml : {Throws}, scan : {Throws}]
    \cup [json : {Throws}, yaml : ParsedDocs, scan : {Throws}]
    \cup [json : {Throws}, yaml : {Throws}, scan : ScannedDocs]

\* index.js:140-172: the parsing stages in the order the nested try blocks
\* run them, and the document the first one that does not throw yields
ParseStages(content) ==
  IF content.json # Throws
    THEN [spec |-> content.json, stages |-> <<"json">>]
    ELSE IF content.yaml # Throws
      THEN [spec |-> content.yaml, stages |-> <<"json", "yaml">>]
      ELSE [spec |-> content.scan, stages |-> <<"json", "yaml", "scan">>]

\* index.js:186-197: the basic validation of the catch block: the messages pushed
BasicErrors(doc) ==
  (IF ~doc.decl THEN <<"Missing openapi or swagger version declaration">> ELSE <<>>)
    \o (IF ~doc.title THEN <<"Missing API title">> ELSE <<>>)
    \o (IF ~doc.version THEN <<"Missing API version">> ELSE <<>>)

\* index.js:186: `spec.openapi` throws a TypeError when spec is null
AccessThrows(doc) == doc.kind = "null"

\* index.js:210-212: formatOpenAPISpec(spec) / generateOpenAPISummary(spec)
\* throw a TypeError on null (:236) and on fields of unexpected types (:251)
FormatThrows(doc) == doc.kind = "null" \/ ~doc.formattable

\* index.js:213-219: the result of a call that got through
Formatted(doc, valid, errs) ==
  [kind |-> "result", spec |-> doc,
   formatted |-> <<"formatOpenAPISpec", doc>>,
   summary |-> <<"generateOpenAPISummary", doc>>,
   isValid |-> valid,
   errors |-> IF Len(errs) > 0 THEN errs ELSE <<"undefined">>]

\* index.js:221-229: the result built by the outer catch block
ParsingError ==
  [kind |-> "parseError", spec |-> "{}",
   formatted |-> <<"content">>,
   summary |-> <<"OpenAPI parsing failed">>,
   isValid |-> FALSE,
   errors |-> <<"Parsing error">>]

NoChecks == [validation |-> "none", dereference |-> "none", original |-> NullDoc]

\* the state before parseOpenAPISpec(content)
OAInitWith(content) ==
  /\ oaContent = content
  /\ oaPc = "idle"
  /\ oaSpec = NullDoc
  /\ oaIsValid = TRUE
  /\ oaErrors = <<>>
  /\ oaResult = [kind |-> "none"]
  /\ oaStages = <<>>
  /\ oaChecks = NoChecks

\* index.js:134-176: the call: the parsing stages, up to `await validate(...)`
OaParse ==
  /\ oaPc = "idle"
  /\ LET p == ParseStages(oaContent) IN
       /\ oaSpec' = p.spec
       /\ oaStages' = p.stages
  /\ oaPc' = "validating"
  /\ UNCHANGED <<oaContent, oaIsValid, oaErrors, oaResult, oaChecks,
                 clVars, rlVars, rtVars, newVars, slVars, arVars, sbVars, swVars>>

\* what the validator reports for a document that is not valid
ValidatorErrors == {<<"validator error 1">>, <<"validator error 1", "validator error 2">>}

\* index.js:176-202: validate() settles: it reports the document valid, or
\* invalid with its errors, or throws and the basic validation runs, which
\* itself throws on a null document; then dereference() is awaited
OaValidated(outcome, errs) ==
  /\ oaPc = "validating"
  /\ oaChecks' = [oaChecks EXCEPT !.validation = outcome, !.original = oaSpec]
  /\ IF outcome = "throws" /\ AccessThrows(oaSpec)
       THEN /\ oaPc' = "done"
            /\ oaResult' = ParsingError
            /\ UNCHANGED <<oaIsValid, oaErrors>>
       ELSE /\ oaPc' = "dereferencing"
            /\ oaResult' = oaResult
            /\ oaIsValid' = CASE outcome = "valid" -> TRUE
                              [] outcome = "invalid" -> FALSE
                              [] outcome = "throws" -> BasicErrors(oaSpec) = <<>>
            /\ oaErrors' = CASE outcome = "valid" -> <<>>
                             [] outcome = "invalid" -> errs
                             [] outcome = "throws" -> BasicErrors(oaSpec)
  /\ UNCHANGED <<oaContent, oaSpec, oaStages,
                 clVars, rlVars, rtVars, newVars, slVars, arVars, sbVars, swVars>>

\* index.js:202-229: dereference() settles: when it resolves, spec becomes the
\* dereferenced document; the document is formatted and summarised, and the
\* result returned, or the outer catch block builds the parsing-error result
OaDereferenced(ok) ==
  /\ oaPc = "dereferencing"
  /\ ok => oaSpec.kind = "object"
  /\ oaChecks' = [oaChecks EXCEPT !.dereference = IF ok THEN "resolved" ELSE "rejected"]
  /\ oaSpec' = IF ok THEN [oaSpec EXCEPT !.dereferenced = TRUE] ELSE oaSpec
  /\ oaResult' = IF FormatThrows(oaSpec')
                   THEN ParsingError
                   ELSE Formatted(oaSpec', oaIsValid, oaErrors)
  /\ oaPc' = "done"
  /\ UNCHANGED <<oaContent, oaIsValid, oaErrors, oaStages,
                 clVars, rlVars, rtVars, newVars, slVars, arVars, sbVars, swVars>>

OAInit == \E content \in Contents : OAInitWith(content)

OANext ==
  \/ OaParse
  \/ \E errs \in ValidatorErrors : OaValidated("invalid", errs)
  \/ OaValidated("valid", <<>>)
  \/ OaValidated("throws", <<>>)
  \/ \E ok \in BOOLEAN : OaDereferenced(ok)

\* ------------------------------------------------------------------------
\* searchRelevantWebsites (src/dist/index.js, lines 491-523)
\* ------------------------------------------------------------------------
\* bound: the number of entries of config.websites
NumSites == 2

\* String.prototype.toLowerCase over the characters in use
ToLower(str) == [i \in 1..Len(str) |-> IF str[i] = "D" THEN "d" ELSE str[i]]

\* a site's optional description that is left out
Undefined == <<"undefined">>

\* the texts in use: queries, descriptions, URLs and fetched Markdown
Queries == {<<"d">>, <<"D">>}
Descriptions == {<<"d", "x">>, <<"D">>, <<"x">>, Undefined}
Urls == {<<"x">>, <<"x", "d">>}
Markdowns == {<<"x", "D">>, <<"x">>}

ConfiguredSites == [description : Descriptions, url : Urls]

\* faulty variant (sensitivity of C20): the comparison minds the case
MatchesCaseSensitive(text, query) ==
  text # Undefined /\ Includes(text, query)
\* index.js:496-498: text?.toLowerCase().includes(query.toLowerCase())
Matches(text, query) ==
  text # Undefined /\ Includes(ToLower(text), ToLower(query))

\* index.js:496-499: the score before the fetch, in tenths: 0.3 and 0.2 for
\* the description, 0.1 for the URL
PreScore(site, query) ==
  (IF Matches(site.description, query) THEN 3 ELSE 0)
    + (IF Matches(site.description, query) THEN 2 ELSE 0)
    + (IF Matches(site.url, query) THEN 1 ELSE 0)

\* index.js:506: 0.4 when the fetched Markdown holds the query
ContentScore(markdown, query) == IF Matches(markdown, query) THEN 4 ELSE 0

\* faulty variant (sensitivity of C17): a site without any match passes too
GateLoose(score) == score >= 0
\* index.js:501: if (relevance > 0)
Gate(score) == score > 0

\* index.js:494-504: the loop from position i on: the first site that passes
\* the gate, whose fetch is awaited; Len + 1 when there is none left
NextCandidate(i) ==
  LET cands == {j \in i..Len(swSites) : Gate(PreScore(swSites[j], swQuery))} IN
    IF cands = {} THEN Len(swSites) + 1 ELSE CHOOSE j \in cands : \A k \in cands : j <= k

\* faulty variant (sensitivity of C19): ascending order
ComesBeforeAscending(a, b) == a.relevance <= b.relevance
\* index.js:522: the comparator (a, b) => b.relevance - a.relevance: a stays
\* before b unless b scores higher
ComesBefore(a, b) == a.relevance >= b.relevance

\* index.js:522: Array.prototype.sort, which is stable: x goes behind every
\* element it does not have to precede
RECURSIVE InsertSorted(_, _)
InsertSorted(x, sorted) ==
  IF sorted = <<>>
    THEN <<x>>
    ELSE IF ComesBefore(sorted[Len(sorted)], x)
      THEN Append(sorted, x)
      ELSE Append(InsertSorted(x, SubSeq(sorted, 1, Len(sorted) - 1)), sorted[Len(sorted)])

RECURSIVE SortResults(_)
SortResults(rs) ==
  IF rs = <<>> THEN <<>>
  ELSE InsertSorted(rs[Len(rs)], SortResults(SubSeq(rs, 1, Len(rs) - 1)))

\* the state before searchRelevantWebsites(query) with config.websites = sites
SWInitWith(query, sites) ==
  /\ swQuery = query
  /\ swSites = sites
  /\ swPc = "idle"
  /\ swIndex = 0
  /\ swResults = <<>>
  /\ swReturned = <<>>
  /\ swFetchLog = <<>>

\* index.js:494-504 and :522: the loop runs on from position i to the next
\* awaited fetch, or to its end, where rs is sorted and returned
LoopFrom(i, rs) ==
  LET j == NextCandidate(i) IN
    /\ swIndex' = j
    /\ swResults' = rs
    /\ IF j <= Len(swSites)
         THEN /\ swPc' = "fetching"
              /\ swReturned' = swReturned
         ELSE /\ swPc' = "returned"
              /\ swReturned' = SortResults(rs)

\* index.js:491-504: the call
SwSearch ==
  /\ swPc = "idle"
  /\ LoopFrom(1, swResults)
  /\ UNCHANGED <<swQuery, swSites, swFetchLog,
                 clVars, rlVars, rtVars, newVars, slVars, arVars, sbVars, oaVars>>

\* faulty variant (sensitivity of C18): a failed fetch ends the loop
AfterFailureStop(i) == Len(swSites) + 1
\* index.js:516-520: the catch block logs, and the loop goes on with the next site
AfterFailure(i) == i + 1

\* index.js:504-515: fetchWebsiteContent() resolves with Markdown md: the
\* site is pushed with its total score when that is positive
SwFetchResolves(md) ==
  /\ swPc = "fetching"
  /\ swFetchLog' = Append(swFetchLog, [site |-> swIndex, ok |-> TRUE, markdown |-> md])
  /\ LET total == PreScore(swSites[swIndex], swQuery) + ContentScore(md, swQuery)
         rs == IF total > 0
                 THEN Append(swResults, [site |-> swIndex, relevance |-> total,
                                         content |-> md])
                 ELSE swResults
     IN  LoopFrom(swIndex + 1, rs)
  /\ UNCHANGED <<swQuery, swSites,
                 clVars, rlVars, rtVars, newVars, slVars, arVars, sbVars, oaVars>>

\* index.js:504 and :516-518: fetchWebsiteContent() rejects (index.js:436-439)
SwFetchRejects ==
  /\ swPc = "fetching"
  /\ swFetchLog' = Append(swFetchLog, [site |-> swIndex, ok |-> FALSE, markdown |-> <<>>])
  /\ LoopFrom(AfterFailure(swIndex), swResults)
  /\ UNCHANGED <<swQuery, swSites,
                 clVars, rlVars, rtVars, newVars, slVars, arVars, sbVars, oaVars>>

\* the configurations: up to NumSites sites
SiteLists == UNION {[1..n -> ConfiguredSites] : n \in 0..NumSites}

SWInit == \E query \in Queries : \E sites \in SiteLists : SWInitWith(query, sites)

SWNext ==
  \/ SwSearch
  \/ \E md \in Markdowns : SwFetchResolves(md)
  \/ SwFetchRejects

\* ------------------------------------------------------------------------
\* ContentProcessor.processContent (src/unnamed/part_003:120-403) and the
\* same pipeline in EnhancedWebsiteFetcher (src/src/enhanced-fetcher.ts:
\* 122-257, 305-345).  Both run synchronously from the parsed page to the
\* returned object, so each call is one action.
\*
\* A page is a <nav>, an <article> and a <footer> under <body>.  The text
\* of nav and footer sits in the element itself or in a <div> child; an
\* element has no script, style, comment, hidden, empty, aside or ad-like
\* descendant, so the removal steps other than removeNavigation and
\* removeFooter leave the page as it is.  Lengths are those of text().trim().
\* ------------------------------------------------------------------------
\* longest Markdown text that turndown() returns
MaxTextLen == 5

\* part_003:238: a selected element must hold more than this many characters
ContentThreshold == 100

CpKinds == {"ContentProcessor", "EnhancedWebsiteFetcher"}

ArticleLens == {ContentThreshold - 1, ContentThreshold, ContentThreshold + 1}
RegionLens == {50, 400}
Classes == {"none", "content"}

NavElements ==
  [tag : {"nav"}, cls : Classes, wrapped : BOOLEAN, len : RegionLens, linked : BOOLEAN]

ArticleElements ==
  [tag : {"article"}, cls : {"none"}, wrapped : {FALSE}, len : ArticleLens,
   linked : BOOLEAN, paragraphs : {0, 2}]

FooterElements ==
  [tag : {"footer"}, cls : {"none"}, wrapped : BOOLEAN, len : RegionLens, linked : {FALSE}]

Pages == [nav : NavElements, article : ArticleElements, footer : FooterElements]

\* the element of a region and, when its text is wrapped, the <div> inside it
ElementNodes(el, paragraphs) ==
  LET node(tag, cls) ==
        [tag |-> tag, cls |-> cls, region |-> el.tag, len |-> el.len,
         linkLen |-> IF el.linked THEN el.len ELSE 0,
         paragraphs |-> paragraphs, noise |-> 0]
  IN  IF el.wrapped THEN <<node(el.tag, el.cls), node("div", "none")>>
      ELSE <<node(el.tag, el.cls)>>

\* cleanHTML (part_003:187-193): nav and footer go when their option is set;
\* cleanAndExtractContent (enhanced-fetcher.ts:130-134): removeNavigation
\* removes both.  The result is the page's elements in document order.
CleanHTML(kind, html, options) ==
  LET dropNav == options.removeNavigation
      dropFooter == IF kind = "ContentProcessor" THEN options.removeFooter
                    ELSE options.removeNavigation
  IN  (IF dropNav THEN <<>> ELSE ElementNodes(html.nav, 0))
      \o ElementNodes(html.article, html.article.paragraphs)
      \o (IF dropFooter THEN <<>> ELSE ElementNodes(html.footer, 0))

\* contentSelectors (part_003:230-234), in the order they are tried
ContentSelectors ==
  <<[kind |-> "tag", name |-> "main"], [kind |-> "role", name |-> "main"],
    [kind |-> "class", name |-> "main"], [kind |-> "class", name |-> "content"],
    [kind |-> "class", name |-> "post-content"],
    [kind |-> "class", name |-> "article-content"],
    [kind |-> "class", name |-> "entry-content"],
    [kind |-> "class", name |-> "post-body"],
    [kind |-> "class", name |-> "article-body"],
    [kind |-> "tag", name |-> "article"], [kind |-> "class", name |-> "article"],
    [kind |-> "class", name |-> "post"], [kind |-> "class", name |-> "blog-post"]>>

\* no element of a page has a role attribute
SelectorMatches(sel, node) ==
  \/ sel.kind = "tag" /\ node.tag = sel.name
  \/ sel.kind = "class" /\ node.cls = sel.name

\* $(selector).first(): position of the first matching element, 0 if none
First(sel, nodes) ==
  IF \E i \in 1..Len(nodes) : SelectorMatches(sel, nodes[i])
  THEN CHOOSE i \in 1..Len(nodes) :
         /\ SelectorMatches(sel, nodes[i])
         /\ \A j \in 1..(i - 1) : ~SelectorMatches(sel, nodes[j])
  ELSE 0

\* mutant of Qualifies: the threshold one character higher
QualifiesAbove(len) == len > ContentThreshold + 1

\* part_003:238: content.text().trim().length > 100
Qualifies(len) == len > ContentThreshold

\* content.html(): the element the content was taken from and the regions
\* whose text it holds
InnerHtml(node) == [root |-> node.tag, of |-> node.region, texts |-> {node.region}]

\* $('body').html()
BodyHtml(nodes) ==
  [root |-> "body", of |-> "body", texts |-> {nodes[i].region : i \in 1..Len(nodes)}]

\* part_003:258-260, in tenths:
\* 0.3 * textLength + 10 * paragraphCount - linkDensity * textLength * 0.2
\* - 50 * (script, style, nav, aside, footer descendants)
Score(node) ==
  3 * node.len + 100 * node.paragraphs - 2 * node.linkLen - 500 * node.noise

\* heuristicContentExtraction (part_003:247-269): the loop from element i on
RECURSIVE BestElement(_, _, _, _)
BestElement(nodes, i, maxScore, best) ==
  IF i > Len(nodes) THEN best
  ELSE IF nodes[i].tag \in {"div", "article", "section"} /\ Score(nodes[i]) > maxScore
       THEN BestElement(nodes, i + 1, Score(nodes[i]), i)
       ELSE BestElement(nodes, i + 1, maxScore, best)

HeuristicContentExtraction(nodes) ==
  LET best == BestElement(nodes, 1, 0, 0)
  IN  IF best # 0 THEN InnerHtml(nodes[best]) ELSE BodyHtml(nodes)

\* extractMainContent (part_003:228-245): the loop from selector s on
RECURSIVE ExtractFrom(_, _)
ExtractFrom(nodes, s) ==
  IF s > Len(ContentSelectors) THEN HeuristicContentExtraction(nodes)
  ELSE LET i == First(ContentSelectors[s], nodes)
       IN  IF i # 0 /\ Qualifies(nodes[i].len) THEN InnerHtml(nodes[i])
           ELSE ExtractFrom(nodes, s + 1)

ExtractMainContent(nodes) == ExtractFrom(nodes, 1)

\* part_003:142-144
MainContent(nodes, options) ==
  IF options.extractMainContent THEN ExtractMainContent(nodes) ELSE BodyHtml(nodes)

\* Markdown texts are sequences of characters: a letter, a space, a line
\* break and a bullet.  They hold no digit and no bracket, so the rewriting
\* of numbered lists and of links (part_003:382-391) leaves them unchanged.
Letters == {"a", " ", "\n", "-"}

IsSpace(c) == c \in {" ", "\n"}

\* first position from p on that holds no character of S (Len(s) + 1 if none)
RunEnd(s, p, S) ==
  CHOOSE q \in p..(Len(s) + 1) :
    /\ q = Len(s) + 1 \/ s[q] \notin S
    /\ \A r \in p..(q - 1) : s[r] \in S

\* processed.replace(/\n{3,}/g, '\n\n') (part_003:378), from position p on
RECURSIVE CollapseFrom(_, _)
CollapseFrom(s, p) ==
  IF p > Len(s) THEN <<>>
  ELSE LET q == RunEnd(s, p, {"\n"})
       IN  IF q - p >= 3 THEN <<"\n", "\n">> \o CollapseFrom(s, q)
           ELSE IF q > p THEN SubSeq(s, p, q - 1) \o CollapseFrom(s, q)
           ELSE <<s[p]>> \o CollapseFrom(s, p + 1)

\* processed.replace(/^[\s]*[\*\-\+][\s]/gm, '- ') (part_003:381), from
\* position p on: at the start of a line, white space, a bullet and one
\* white-space character become "- "
RECURSIVE FixListsFrom(_, _)
FixListsFrom(s, p) ==
  IF p > Len(s) THEN <<>>
  ELSE LET q == RunEnd(s, p, {" ", "\n"})
           atLineStart == p = 1 \/ s[p - 1] = "\n"
           bullet == q + 1 <= Len(s) /\ s[q] = "-" /\ IsSpace(s[q + 1])
       IN  IF atLineStart /\ bullet THEN <<"-", " ">> \o FixListsFrom(s, q + 2)
           ELSE <<s[p]>> \o FixListsFrom(s, p + 1)

\* part_003:378-391
Rewritten(markdown) == FixListsFrom(CollapseFrom(markdown, 1), 1)

\* String.prototype.trim()
Trim(s) ==
  LET first == RunEnd(s, 1, {" ", "\n"})
  IN  IF first > Len(s) THEN <<>>
      ELSE LET last == CHOOSE q \in first..Len(s) :
                         ~IsSpace(s[q]) /\ \A r \in (q + 1)..Len(s) : IsSpace(s[r])
           IN  SubSeq(s, first, last)

\* mutant of TooShort: a text of exactly the minimum length is refused too
TooShortOrEqual(processed, options) ==
  options.minTextLength # 0 /\ Len(processed) <= options.minTextLength

\* part_003:394 (0 stands for an option that is not set: both are falsy)
TooShort(processed, options) ==
  options.minTextLength # 0 /\ Len(processed) < options.minTextLength

\* part_003:398-400
Truncated(processed, options) ==
  IF options.maxTextLength # 0 /\ Len(processed) > options.maxTextLength
  THEN SubSeq(processed, 1, options.maxTextLength) \o <<".", ".", ".">>
  ELSE processed

ContentTooShort == [kind |-> "Error", message |-> "content too short"]

NoResult == [kind |-> "none"]

CPInitWith(kind, html, options, converted) ==
  /\ cpKind = kind
  /\ cpHtml = html
  /\ cpOptions = options
  /\ cpConverted = converted
  /\ cpPc = "idle"
  /\ cpResult = NoResult
  /\ cpMeasured = <<>>

\* processContent(html, url, options): cleanHTML, extractMainContent or the
\* body, turndown(), postProcessMarkdown
CpProcessContent ==
  /\ cpKind = "ContentProcessor"
  /\ cpPc = "idle"
  /\ LET nodes == CleanHTML(cpKind, cpHtml, cpOptions)
         mainContent == MainContent(nodes, cpOptions)
         processed == Rewritten(cpConverted)
     IN  /\ cpMeasured' = processed
         /\ IF TooShort(processed, cpOptions)
            THEN /\ cpPc' = "thrown"
                 /\ cpResult' = ContentTooShort
            ELSE /\ cpPc' = "returned"
                 /\ cpResult' = [kind |-> "result", content |-> mainContent,
                                 markdown |-> Trim(Truncated(processed, cpOptions))]
  /\ UNCHANGED <<cpKind, cpHtml, cpOptions, cpConverted, oldVars, srVars, cmVars>>

\* fetchAndProcess (enhanced-fetcher.ts:320-344), from the fetched page on:
\* cleanAndExtractContent, turndown(), postProcessMarkdown without limits
CpFetchAndProcess ==
  /\ cpKind = "EnhancedWebsiteFetcher"
  /\ cpPc = "idle"
  /\ LET nodes == CleanHTML(cpKind, cpHtml, cpOptions)
         mainContent == MainContent(nodes, cpOptions)
         processed == Rewritten(cpConverted)
     IN  /\ cpMeasured' = processed
         /\ cpPc' = "returned"
         /\ cpResult' = [kind |-> "result", content |-> mainContent,
                         markdown |-> Trim(processed)]
  /\ UNCHANGED <<cpKind, cpHtml, cpOptions, cpConverted, oldVars, srVars, cmVars>>

\* the texts turndown() returns: it strips leading line breaks and trailing
\* white space from its output
Texts ==
  {s \in UNION {[1..n -> Letters] : n \in 0..MaxTextLen} :
     s = <<>> \/ (s[1] # "\n" /\ ~IsSpace(s[Len(s)]))}

MinTextLengths == {0, 3, 5}
MaxTextLengths == {0, 1}

ProcessorOptions ==
  [removeNavigation : BOOLEAN, removeFooter : BOOLEAN, extractMainContent : BOOLEAN,
   minTextLength : {0}, maxTextLength : {0}]

\* ContentOptions has no removeFooter and no length limits
FetcherOptions ==
  {o \in ProcessorOptions : o.removeFooter = o.removeNavigation}

LimitOptions ==
  [removeNavigation : {TRUE}, removeFooter : {TRUE}, extractMainContent : {TRUE},
   minTextLength : MinTextLengths, maxTextLength : MaxTextLengths]

PlainPage ==
  [nav |-> [tag |-> "nav", cls |-> "none", wrapped |-> FALSE, len |-> 50, linked |-> TRUE],
   article |-> [tag |-> "article", cls |-> "none", wrapped |-> FALSE,
                len |-> ContentThreshold + 1, linked |-> FALSE, paragraphs |-> 2],
   footer |-> [tag |-> "footer", cls |-> "none", wrapped |-> FALSE, len |-> 50,
               linked |-> FALSE]]

\* every page with one text, or one page with every text and every limit
CPInit ==
  \/ \E html \in Pages : \E options \in ProcessorOptions :
       CPInitWith("ContentProcessor", html, options, <<"a">>)
  \/ \E html \in Pages : \E options \in FetcherOptions :
       CPInitWith("EnhancedWebsiteFetcher", html, options, <<"a">>)
  \/ \E options \in LimitOptions : \E converted \in Texts :
       CPInitWith("ContentProcessor", PlainPage, options, converted)
  \/ \E converted \in Texts :
       CPInitWith("EnhancedWebsiteFetcher", PlainPage, CHOOSE o \in FetcherOptions :
                    o.removeNavigation /\ o.extractMainContent, converted)

CPNext ==
  \/ CpProcessContent
  \/ CpFetchAndProcess

\* ------------------------------------------------------------------------
\* SimpleRateLimit.wait (src/unnamed/part_002:43-59) and the module-level
\* rateLimit(intervalMs) (src/src/utils/rate-limiter.ts:193-209).  A call
\* reads the clock and lastCall, sleeps for the rest of the interval when
\* the last call is too recent, and stamps lastCall when it resumes.
\* ------------------------------------------------------------------------
\* callers that share one SimpleRateLimit, or the one `global` key of rateLimit
NumCallers == 2
\* calls issued in all
SrMaxCalls == 3

Callers == 1..NumCallers

SrKinds == {"SimpleRateLimit", "rateLimit"}

SrIntervals == {MsPerSecond, 2 * MsPerSecond}

SrMaxNow == 3 * MsPerSecond

\* Date.now(): the limiter is constructed long after the epoch
SrDateNow == ConstructedAt + srNow

NotWaiting == [pc |-> "idle", wake |-> 0]

\* part_002:44 `lastCall = 0`; rate-limiter.ts:200 `_lastCalls.get(key) || 0`
SRInitWith(kind, interval) ==
  /\ srKind = kind
  /\ srInterval = interval
  /\ srNow = 0
  /\ srLastCall = 0
  /\ srCallers = [c \in Callers |-> NotWaiting]
  /\ srCalls = 0
  /\ srReturns = <<>>

\* part_002:50 and rate-limiter.ts:201
TimeSinceLastCall == SrDateNow - srLastCall

\* part_002:52 and rate-limiter.ts:203
MustWait(since) == since < srInterval

\* part_002:57 and rate-limiter.ts:208: lastCall = Date.now(), and the call returns
Stamp(c) ==
  /\ srLastCall' = SrDateNow
  /\ srCallers' = [srCallers EXCEPT ![c] = NotWaiting]
  /\ srReturns' = Append(srReturns, SrDateNow)

\* part_002:48-58 and rate-limiter.ts:196-209: caller c calls wait() /
\* rateLimit(intervalMs); the call returns at once or suspends at the timer
SrWait(c) ==
  /\ srCallers[c].pc = "idle"
  /\ srCalls < SrMaxCalls
  /\ srCalls' = srCalls + 1
  /\ IF MustWait(TimeSinceLastCall)
       THEN /\ srCallers' = [srCallers EXCEPT ![c] =
                 [pc |-> "sleeping", wake |-> srNow + (srInterval - TimeSinceLastCall)]]
            /\ UNCHANGED <<srLastCall, srReturns>>
       ELSE Stamp(c)
  /\ UNCHANGED <<srKind, srInterval, srNow, oldVars, cpVars, cmVars>>

\* part_002:54-57 and rate-limiter.ts:205-208: the timer of caller c fires
SrWake(c) ==
  /\ srCallers[c].pc = "sleeping"
  /\ srNow >= srCallers[c].wake
  /\ Stamp(c)
  /\ UNCHANGED <<srKind, srInterval, srNow, srCalls, oldVars, cpVars, cmVars>>

\* Date.now() advances
SrTick ==
  /\ srNow + TickMs <= SrMaxNow
  /\ srNow' = srNow + TickMs
  /\ UNCHANGED <<srKind, srInterval, srLastCall, srCallers, srCalls, srReturns,
                 oldVars, cpVars, cmVars>>

SRInit == \E kind \in SrKinds : \E interval \in SrIntervals : SRInitWith(kind, interval)

SRNext ==
  \/ \E c \in Callers : SrWait(c)
  \/ \E c \in Callers : SrWake(c)
  \/ SrTick

\* ------------------------------------------------------------------------
\* ConfigManager (src/unnamed/part_001:88-361).  Every method is
\* synchronous, so each call is one action.  An object is a function from
\* its keys to their values: a key that is not set is not in the domain.
\* The manager is taken as constructed with a valid configuration.
\* ------------------------------------------------------------------------
\* websites in the configuration at construction
NumWebsites == 2
\* calls made on the manager
CmMaxOps == 2

WebsiteNames == {"a", "b"}

WebsiteUrls == {"https://x", "not a url"}

\* an object without keys
NoKeys == [k \in {} |-> 0]

\* customSettings: absent or empty, retries only, timeout and retries
CustomSettings == {NoKeys, [retries |-> 0], [timeout |-> 5000, retries |-> 2]}

\* { ...a, ...b }
Spread(a, b) ==
  [k \in DOMAIN a \cup DOMAIN b |-> IF k \in DOMAIN b THEN b[k] ELSE a[k]]

\* part_001:6-26: WebsiteSchema.parse(w) succeeds
WebsiteSchemaOk(w) ==
  /\ w.url # "not a url"
  /\ "timeout" \in DOMAIN w.customSettings =>
       w.customSettings.timeout >= 1000 /\ w.customSettings.timeout <= 120000
  /\ "retries" \in DOMAIN w.customSettings =>
       w.customSettings.retries >= 0 /\ w.customSettings.retries <= 10

\* part_001:29-31: GlobalSettingsSchema.parse(s) succeeds
GlobalSettingsSchemaOk(s) ==
  /\ s.defaultTimeout >= 1000 /\ s.defaultTimeout <= 120000
  /\ s.defaultRetries >= 0 /\ s.defaultRetries <= 10

\* part_001:79-82: ConfigSchema.parse(c) succeeds
ConfigSchemaOk(c) ==
  /\ \A i \in 1..Len(c.websites) : WebsiteSchemaOk(c.websites[i])
  /\ GlobalSettingsSchemaOk(c.settings)

\* part_001:30-31: the defaults of defaultTimeout and defaultRetries
DefaultSettings == [defaultTimeout |-> 30000, defaultRetries |-> 3]

StoredWebsites ==
  [name : WebsiteNames, url : {"https://x"}, enabled : BOOLEAN,
   customSettings : CustomSettings]

\* array.findIndex(site => test(site)): 0 stands for -1
FindIndex(websites, Test(_)) ==
  IF \E i \in 1..Len(websites) : Test(websites[i])
  THEN CHOOSE i \in 1..Len(websites) :
         Test(websites[i]) /\ \A j \in 1..(i - 1) : ~Test(websites[j])
  ELSE 0

\* array.splice(index, 1)
Splice(websites, index) ==
  SubSeq(websites, 1, index - 1) \o SubSeq(websites, index + 1, Len(websites))

Ended(op, name, raised, cause) ==
  [op |-> op, name |-> name, raised |-> raised, cause |-> cause]

CMInitWith(config) ==
  /\ cmConfig = config
  /\ cmFile = config
  /\ cmOps = 0
  /\ cmLast = Ended("constructor", "", FALSE, "none")
  /\ cmMerged = NoKeys

\* the frame of every call: one more call made, the other components untouched
Called ==
  /\ cmOps < CmMaxOps
  /\ cmOps' = cmOps + 1
  /\ UNCHANGED <<oldVars, cpVars, srVars>>

\* a call that throws before it assigns anything
Raises(op, name, cause) ==
  /\ cmLast' = Ended(op, name, TRUE, cause)
  /\ UNCHANGED <<cmConfig, cmFile, cmMerged>>

\* part_001:261-269 saveConfig(), called after this.config became `config`:
\* the file is written, or writeFileSync throws and the error is rethrown
SaveConfig(op, name, config, written) ==
  /\ cmConfig' = config
  /\ cmFile' = IF written THEN config ELSE cmFile
  /\ cmLast' = IF written THEN Ended(op, name, FALSE, "none")
               ELSE Ended(op, name, TRUE, "save")
  /\ UNCHANGED cmMerged

\* part_001:191-205
CmAddWebsite(website, written) ==
  /\ Called
  /\ LET newWebsite == Spread(website, [enabled |-> TRUE]) IN
       IF ~WebsiteSchemaOk(newWebsite) THEN Raises("addWebsite", website.name, "validation")
       ELSE SaveConfig("addWebsite", website.name,
                       [cmConfig EXCEPT !.websites = Append(@, newWebsite)], written)

\* part_001:207-223
CmUpdateWebsite(name, updates, written) ==
  /\ Called
  /\ LET index == FindIndex(cmConfig.websites, LAMBDA site : site.name = name) IN
       IF index = 0 THEN Raises("updateWebsite", name, "unknown")
       ELSE LET updatedWebsite == Spread(cmConfig.websites[index], updates) IN
              IF ~WebsiteSchemaOk(updatedWebsite)
              THEN Raises("updateWebsite", name, "validation")
              ELSE SaveConfig("updateWebsite", name,
                              [cmConfig EXCEPT !.websites[index] = updatedWebsite], written)

\* part_001:225-234
CmRemoveWebsite(name, written) ==
  /\ Called
  /\ LET index == FindIndex(cmConfig.websites, LAMBDA site : site.name = name) IN
       IF index = 0 THEN Raises("removeWebsite", name, "unknown")
       ELSE SaveConfig("removeWebsite", name,
                       [cmConfig EXCEPT !.websites = Splice(@, index)], written)

\* part_001:236-245
CmToggleWebsite(name, written) ==
  /\ Called
  /\ LET index == FindIndex(cmConfig.websites, LAMBDA site : site.name = name) IN
       IF index = 0 THEN Raises("toggleWebsite", name, "unknown")
       ELSE SaveConfig("toggleWebsite", name,
                       [cmConfig EXCEPT !.websites[index].enabled = ~@], written)

\* part_001:247-259
CmUpdateGlobalSettings(settings, written) ==
  /\ Called
  /\ LET newSettings == Spread(cmConfig.settings, settings) IN
       IF ~GlobalSettingsSchemaOk(newSettings)
       THEN Raises("updateGlobalSettings", "", "validation")
       ELSE SaveConfig("updateGlobalSettings", "",
                       [cmConfig EXCEPT !.settings = newSettings], written)

\* what JSON.parse makes of the argument of importConfig
Unparsable == [kind |-> "throws", config |-> [websites |-> <<>>, settings |-> DefaultSettings]]

\* part_001:325-336
CmImportConfig(configData, written) ==
  /\ Called
  /\ IF configData.kind = "throws" \/ ~ConfigSchemaOk(configData.config)
     THEN Raises("importConfig", "", "validation")
     ELSE SaveConfig("importConfig", "", configData.config, written)

\* object?.key || fallback: the value when it is set and truthy (not 0)
OrElse(object, key, fallback) ==
  IF key \in DOMAIN object /\ object[key] # 0 THEN object[key] ELSE fallback

\* part_001:183-185: getWebsiteByName(name): position of the site, 0 if none
GetWebsiteByName(name) ==
  FindIndex(cmConfig.websites, LAMBDA site : site.name = name /\ site.enabled)

\* part_001:346-360
GetMergedSettingsForWebsite(websiteName) ==
  LET index == GetWebsiteByName(websiteName)
      globalSettings == cmConfig.settings
  IN  IF index = 0 THEN globalSettings
      ELSE LET customSettings == cmConfig.websites[index].customSettings IN
             Spread(Spread(globalSettings, customSettings),
                    [timeout |-> OrElse(customSettings, "timeout", globalSettings.defaultTimeout),
                     retries |-> OrElse(customSettings, "retries", globalSettings.defaultRetries)])

CmGetMergedSettings(websiteName) ==
  /\ Called
  /\ cmMerged' = GetMergedSettingsForWebsite(websiteName)
  /\ cmLast' = Ended("getMergedSettingsForWebsite", websiteName, FALSE, "none")
  /\ UNCHANGED <<cmConfig, cmFile>>

NewWebsites == [name : WebsiteNames, url : WebsiteUrls, customSettings : CustomSettings]

WebsiteUpdates ==
  {[url |-> "not a url"], [enabled |-> FALSE], [customSettings |-> [retries |-> 0]]}

SettingsUpdates == {[defaultRetries |-> 0], [defaultRetries |-> 11]}

ConfigData ==
  {Unparsable,
   [kind |-> "json", config |-> [websites |-> <<>>, settings |-> DefaultSettings]],
   [kind |-> "json",
    config |-> [websites |-> <<[name |-> "a", url |-> "not a url", enabled |-> TRUE,
                                customSettings |-> NoKeys]>>,
                settings |-> DefaultSettings]]}

WebsiteLists == UNION {[1..n -> StoredWebsites] : n \in 0..NumWebsites}

CMInit ==
  \E websites \in WebsiteLists :
    CMInitWith([websites |-> websites, settings |-> DefaultSettings])

CMNext ==
  \/ \E website \in NewWebsites : \E written \in BOOLEAN : CmAddWebsite(website, written)
  \/ \E name \in WebsiteNames : \E updates \in WebsiteUpdates : \E written \in BOOLEAN :
       CmUpdateWebsite(name, updates, written)
  \/ \E name \in WebsiteNames : \E written \in BOOLEAN : CmRemoveWebsite(name, written)
  \/ \E name \in WebsiteNames : \E written \in BOOLEAN : CmToggleWebsite(name, written)
  \/ \E settings \in SettingsUpdates : \E written \in BOOLEAN :
       CmUpdateGlobalSettings(settings, written)
  \/ \E configData \in ConfigData : \E written \in BOOLEAN :
       CmImportConfig(configData, written)
  \/ \E name \in WebsiteNames : CmGetMergedSettings(name)

\* ------------------------------------------------------------------------
\* Specifications
\* ------------------------------------------------------------------------
\* a component that a specification does not exercise stays as constructed
CLIdle == CLInitWith(1)
RLIdle == RLInitWith(1, MsPerSecond)
RTIdle == RTInitWith([retries |-> 0, factor |-> 1, minTimeout |-> 0, maxTimeout |-> 0,
                      randomize |-> FALSE, onRetry |-> FALSE, filtered |-> FALSE,
                      patterns |-> <<>>])
SLIdle == SLInitWith("simpleRetry", 0, 0, 2)
ARIdle == ARInitWith(1, 1, 1)
SBIdle == SBInitWith(FALSE, FALSE)
OAIdle == OAInitWith([json |-> ScalarDoc, yaml |-> Throws, scan |-> Throws])
SWIdle == SWInitWith(<<"d">>, <<>>)
CPIdle == CPInitWith("ContentProcessor", PlainPage, CHOOSE o \in ProcessorOptions : TRUE, <<>>)
SRIdle == SRInitWith("SimpleRateLimit", MsPerSecond)
CMIdle == CMInitWith([websites |-> <<>>, settings |-> DefaultSettings])
NewIdle == CPIdle /\ SRIdle /\ CMIdle
ExtIdle == SLIdle /\ ARIdle /\ SBIdle /\ OAIdle /\ SWIdle /\ NewIdle

\* ConcurrencyLimiter with every operation of the class
Init == CLInit /\ RLIdle /\ RTIdle /\ ExtIdle
Next == CLNext
Spec == Init /\ [][Next]_vars

\* ConcurrencyLimiter without clearQueue(), maxConcurrency >= 1, where every
\* promise fn() returns settles (WF on FnSettles: the hypothesis of the
\* liveness claim) and every queued continuation runs (WF on Complete: the
\* microtask queue is drained).
LiveInit == LiveInitCL /\ RLIdle /\ RTIdle /\ ExtIdle
LiveSpec ==
  /\ LiveInit
  /\ [][LiveNext]_vars
  /\ \A t \in Tasks :
       /\ WF_vars(FnSettles(t, "settledOk") \/ FnSettles(t, "settledErr"))
       /\ WF_vars(Complete(t))

\* RateLimiter shared by concurrent consumers
RLSpecInit == RLInit /\ CLIdle /\ RTIdle /\ ExtIdle
RLSpec == RLSpecInit /\ [][RLNext]_vars

\* RateLimiter shared by concurrent consumers that issue finitely many
\* calls; time passes (WF on LiveTick) and every timer fires (WF on Wake)
RLLiveSpecInit == RLLiveInit /\ CLIdle /\ RTIdle /\ ExtIdle
RLLiveSpec ==
  /\ RLLiveSpecInit
  /\ [][RLLiveNext]_vars
  /\ WF_vars(LiveTick)
  /\ \A c \in LiveConsumers :
       WF_vars(Wake(c) /\ UNCHANGED <<openCalls, callLog>>)

\* RateLimiter used by one caller issuing unit requests back to back
BurstSpecInit == BurstInit /\ CLIdle /\ RTIdle /\ ExtIdle
BurstSpec == BurstSpecInit /\ [][BurstNext]_vars

\* one call of retry() or retryOnError()
RetrySpecInit == RTInit /\ CLIdle /\ RLIdle /\ ExtIdle
RetrySpec == RetrySpecInit /\ [][RTNext]_vars

\* the retry loops: a call of retry() / retryOnError() and a call of
\* fetchWithRetry() / simpleRetry(), one of them with every option and the
\* other with no retries
LoopsInit ==
  /\ CLIdle /\ RLIdle /\ ARIdle /\ SBIdle /\ OAIdle /\ SWIdle /\ NewIdle
  /\ \/ RTInit /\ SLIdle
     \/ RTIdle /\ SLInit
LoopsNext == RTNext \/ SLNext
LoopsSpec == LoopsInit /\ [][LoopsNext]_vars

\* AdaptiveRateLimiter used by concurrent callers that report errors and successes
AdaptiveInit ==
  ARInit /\ CLIdle /\ RLIdle /\ RTIdle /\ SLIdle /\ SBIdle /\ OAIdle /\ SWIdle /\ NewIdle
AdaptiveSpec == AdaptiveInit /\ [][ARNext]_vars

\* AdaptiveRateLimiter used by one caller that reports many successes
ARLongSpecInit ==
  ARLongInit /\ CLIdle /\ RLIdle /\ RTIdle /\ SLIdle /\ SBIdle /\ OAIdle /\ SWIdle /\ NewIdle
ARLongSpec == ARLongSpecInit /\ [][ARLongNext]_vars

\* one StealthBrowser session: initialize(), navigate() calls, close()
BrowserInit ==
  SBInit /\ CLIdle /\ RLIdle /\ RTIdle /\ SLIdle /\ ARIdle /\ OAIdle /\ SWIdle /\ NewIdle
BrowserSpec == BrowserInit /\ [][SBNext]_vars

\* one call of parseOpenAPISpec()
OpenAPIInit ==
  OAInit /\ CLIdle /\ RLIdle /\ RTIdle /\ SLIdle /\ ARIdle /\ SBIdle /\ SWIdle /\ NewIdle
OpenAPISpec == OpenAPIInit /\ [][OANext]_vars

\* one call of searchRelevantWebsites()
SearchInit ==
  SWInit /\ CLIdle /\ RLIdle /\ RTIdle /\ SLIdle /\ ARIdle /\ SBIdle /\ OAIdle /\ NewIdle
SearchSpec == SearchInit /\ [][SWNext]_vars

\* one call of processContent() or of fetchAndProcess()
OldIdle == CLIdle /\ RLIdle /\ RTIdle /\ SLIdle /\ ARIdle /\ SBIdle /\ OAIdle /\ SWIdle
ContentInit == CPInit /\ OldIdle /\ SRIdle /\ CMIdle
ContentSpec == ContentInit /\ [][CPNext]_vars

\* concurrent callers of one SimpleRateLimit, or of rateLimit()
IntervalInit == SRInit /\ OldIdle /\ CPIdle /\ CMIdle
IntervalSpec == IntervalInit /\ [][SRNext]_vars

\* a ConfigManager and the calls made on it
ConfigInit == CMInit /\ OldIdle /\ CPIdle /\ SRIdle
ConfigSpec == ConfigInit /\ [][CMNext]_vars

\* ---- claims about ConcurrencyLimiter ----

\* tasks inside fn(): started and fn's promise not yet settled
Executing == {t \in Tasks : taskState[t] = "running"}

\* position of task t in the history of starts (0: not started)
StartPos(t) ==
  IF \E i \in 1..Len(started) : started[i] = t
    THEN CHOOSE i \in 1..Len(started) : started[i] = t
    ELSE 0

\* C1: in every reachable state activeCount <= maxConcurrency, and no more
\* than maxConcurrency submitted tasks are executing at once.
C1_ActiveBounded ==
  /\ activeCount <= maxConcurrency
  /\ Cardinality(Executing) <= maxConcurrency

\* C1 witness: the limiter is full with tasks executing while another waits,
\* after an earlier task failed and one succeeded.
C1_Witness ==
  /\ maxConcurrency = 2
  /\ activeCount = maxConcurrency
  /\ Cardinality(Executing) = 2
  /\ pendingQueue # <<>>
  /\ \E t \in Tasks : taskState[t] = "rejected"
  /\ \E t \in Tasks : taskState[t] = "resolved"

\* C2: among tasks that run() had to enqueue, starts follow submission order:
\* when a waiter has started, every waiter submitted before it has started
\* before it, unless clearQueue() removed it from the queue.
C2_WaitersFifo ==
  \A i \in waiters : \A j \in waiters :
    (i < j /\ StartPos(j) > 0) =>
      \/ (StartPos(i) > 0 /\ StartPos(i) < StartPos(j))
      \/ i \in dropped

\* C2 witness: three waiters were enqueued and all three have started.
C2_Witness ==
  /\ Cardinality(waiters) >= 3
  /\ \A t \in waiters : StartPos(t) > 0
  /\ dropped = {}

Done(t) == taskState[t] \in {"resolved", "rejected"}

\* C3: with maxConcurrency >= 1 and no clearQueue(), if every started task
\* settles then every submitted task eventually starts and completes; all
\* NumTasks tasks complete once submitted.
C3_AllComplete ==
  \A t \in Tasks : (taskState[t] # "new") ~> Done(t)

\* C3 witness: maxConcurrency = 2, all 5 tasks were submitted before any
\* completed (three of them waited), all have completed, and a waiter ran
\* after a failed task freed its slot.
C3_Witness ==
  /\ maxConcurrency = 2
  /\ submitted = NumTasks
  /\ waiters = {t \in Tasks : t > 2}
  /\ \A t \in Tasks : Done(t)
  /\ taskState[1] = "rejected"
  /\ taskState[2] = "rejected"

\* C26: whenever the pending queue is non-empty, activeCount = maxConcurrency
\* (no task waits while a slot is free), and run() starts the task it was
\* given at once only when no task is waiting (a new task never overtakes
\* the waiters).
C26_NoIdleSlot ==
  /\ [](pendingQueue # <<>> => activeCount = maxConcurrency)
  /\ [][(submitted' # submitted /\ taskState'[submitted'] = "running")
          => pendingQueue = <<>>]_vars

\* C26 witness: a slot was freed while two tasks waited; the older waiter took
\* it, the younger still waits and the limiter is full again.
C26_Witness ==
  /\ maxConcurrency >= 1
  /\ \E t \in Tasks : Done(t)
  /\ \E t \in waiters : StartPos(t) > 0 /\ taskState[t] = "running"
  /\ pendingQueue # <<>>
  /\ activeCount = maxConcurrency
  /\ dropped = {}

\* C27: the tasks clearQueue() removed from the pending queue are never
\* started and the promises run() returned for them never settle: they stay
\* as they were, whatever happens afterwards; the call changes neither
\* activeCount nor the state of any task.
C27_DroppedNeverRun ==
  /\ [](\A t \in dropped : taskState[t] = "pending" /\ StartPos(t) = 0)
  /\ [][dropped' # dropped =>
          /\ activeCount' = activeCount
          /\ taskState' = taskState
          /\ started' = started]_vars

\* C27 witness: after clearQueue() dropped a waiter, a running task completed
\* and freed its slot, a later task was submitted and completed too, and the
\* dropped task is still pending.
C27_Witness ==
  /\ dropped # {}
  /\ submitted = NumTasks
  /\ activeCount = 0
  /\ maxConcurrency >= 1
  /\ \E t \in Tasks : Done(t) /\ \A d \in dropped : d < t
  /\ \A t \in dropped : taskState[t] = "pending"

\* ---- claims about RateLimiter ----

Sleeping == {c \in Consumers : consumers[c].pc = "sleeping"}

\* C4: in every reachable state of a RateLimiter, with consume(n) for n >= 0,
\* getAvailableTokens, time passing and several consumers waiting at once,
\* 0 <= tokens <= maxTokens.
C4_TokensInRange == 0 <= tokens /\ tokens <= rlMaxTokens

\* C4 witness: two consumers wait at once on a bucket that has been refilled
\* and has granted tokens.
C4_Witness ==
  /\ Cardinality(Sleeping) >= 2
  /\ lastRefill > 0
  /\ granted > 0
  /\ tokens > 0

\* tokens a bucket can have gained by time T: floor(T x refillRate)
RefilledBy(T) == (T * refillRate) \div (MsPerSecond * RateDenominator)

\* 1 / refillRate seconds, in milliseconds
Period == CeilDiv(MsPerSecond * RateDenominator, refillRate)

\* C5: on a fresh bucket the first maxTokens consume(1) calls return at once,
\* without being suspended; the next one, issued before a token can have been
\* refilled, is suspended once, for 1/refillRate seconds (1000 ms at
\* maxTokens = 5, refillRate = 1), and does not return before.
C5_BurstThenWait ==
  /\ \A k \in 1..Len(callLog) :
       k <= rlMaxTokens =>
         (callLog[k].sleeps = 0 /\ callLog[k].returned = callLog[k].issued)
  /\ (Len(callLog) > rlMaxTokens /\ callLog[rlMaxTokens + 1].issued < Period) =>
       /\ callLog[rlMaxTokens + 1].sleeps = 1
       /\ callLog[rlMaxTokens + 1].due = callLog[rlMaxTokens + 1].issued + Period
       /\ callLog[rlMaxTokens + 1].returned >= callLog[rlMaxTokens + 1].due

\* C5 witness: RateLimiter(5, 1): six calls issued at time 0, the sixth
\* returned at 1000 ms.
C5_Witness ==
  /\ rlMaxTokens = 5
  /\ refillRate = RateDenominator
  /\ Len(callLog) = 6
  /\ \A k \in 1..6 : callLog[k].issued = 0
  /\ callLog[6].returned = MsPerSecond

\* C6: at any time T after construction the tokens granted to the consume()
\* calls that have returned are at most maxTokens + floor(T x refillRate).
C6_RateBounded == granted <= rlMaxTokens + RefilledBy(now)

\* C6 witness: the bound is attained after refills, by calls of two consumers
\* of which one had to wait.
C6_Witness ==
  /\ now > 0
  /\ granted > rlMaxTokens
  /\ granted = rlMaxTokens + RefilledBy(now)
  /\ callCount >= 3

\* ---- claims about retry / retryOnError ----

\* the last error fn threw, with the verdict of line 104
LastThrown == thrownLog[Len(thrownLog)]

\* C7: for every retries = r >= 0, retry() on a function that fails on every
\* invocation invokes it exactly r+1 times, never more, and then rejects with
\* a RetryError whose attempts field is r+1.
C7_AttemptsExhausted ==
  /\ fnCalls <= rtOpts.retries + 1
  /\ (~rtOpts.filtered /\ Len(thrownLog) = rtOpts.retries + 1) => rtPc = "rejected"
  /\ (~rtOpts.filtered /\ rtPc = "rejected") =>
       /\ fnCalls = rtOpts.retries + 1
       /\ Len(thrownLog) = fnCalls
       /\ rtResult.kind = "RetryError"
       /\ rtResult.attempts = rtOpts.retries + 1

\* C7 witness: retry() with retries = MaxRetries has rejected after every
\* invocation failed.
C7_Witness ==
  /\ ~rtOpts.filtered
  /\ rtOpts.retries = MaxRetries
  /\ rtPc = "rejected"
  /\ fnCalls = MaxRetries + 1

\* the delay scale is 1 without randomization and within [0.5, 1.5] with it
ScaleInRange(d) ==
  IF rtOpts.randomize THEN 5 <= d.scale /\ d.scale <= 15 ELSE d.scale = 10

\* C8 as claimed: the delay slept before attempt k (0-indexed; delays[k] is
\* the delay that precedes attempt k) is min(minTimeout x factor^k, maxTimeout),
\* scaled by a factor in [0.5, 1.5] when randomization is enabled.
C8_DelayBeforeAttempt ==
  \A k \in 1..Len(delays) :
    /\ delays[k].base = Min(rtOpts.minTimeout * Pow(rtOpts.factor, k), rtOpts.maxTimeout)
    /\ ScaleInRange(delays[k])

\* C8 as amended: no delay precedes attempt 0; the delay slept after failed
\* attempt k (0-indexed), that is before attempt k+1, is
\* min(minTimeout x factor^k, maxTimeout), scaled by a factor in [0.5, 1.5]
\* when randomization is enabled.
C8_DelayAfterAttempt ==
  /\ (rtPc = "awaitFn" => Len(delays) = attempt)
  /\ (attempt = 0 /\ rtPc \in {"idle", "awaitFn"}) => delays = <<>>
  /\ \A k \in 0..(Len(delays) - 1) :
       /\ delays[k + 1].base =
            Min(rtOpts.minTimeout * Pow(rtOpts.factor, k), rtOpts.maxTimeout)
       /\ ScaleInRange(delays[k + 1])

\* C8 witness: factor 2 with randomization: the first delay is minTimeout
\* scaled, the second is capped at maxTimeout.
C8_Witness ==
  /\ rtOpts.factor = 2
  /\ rtOpts.randomize
  /\ Len(delays) = 2
  /\ delays[1].base = rtOpts.minTimeout
  /\ delays[1].base < rtOpts.maxTimeout
  /\ delays[2].base = rtOpts.maxTimeout
  /\ delays[1].scale # 10

MatchesPattern(pat, err) ==
  \/ Includes(err.message, pat.text)
  \/ IF pat.kind = "string" THEN err.name = pat.text ELSE Includes(err.name, pat.text)

MatchesNone(err) ==
  \A i \in 1..Len(rtOpts.patterns) : ~MatchesPattern(rtOpts.patterns[i], err)

\* C10: in retryOnError(), an error that matches none of the retryable
\* patterns is propagated at once, whatever retries remain: the call rejects
\* with that same error, not wrapped; fn is not invoked again, onRetry is not
\* called for it and no delay is slept.
C10_NonRetryablePropagates ==
  (rtOpts.filtered /\ thrownLog # <<>> /\ MatchesNone(LastThrown.error)) =>
    /\ rtPc = "rejected"
    /\ rtResult = RawError(LastThrown.error)
    /\ fnCalls = Len(thrownLog)
    /\ Len(delays) = Len(thrownLog) - 1
    /\ Len(onRetryLog) = IF rtOpts.onRetry THEN Len(thrownLog) - 1 ELSE 0

\* C10 witness: the first invocation of a retryOnError() with MaxRetries
\* retries and an onRetry callback threw an error matching no pattern.
C10_Witness ==
  /\ rtOpts.filtered
  /\ rtOpts.onRetry
  /\ rtOpts.retries = MaxRetries
  /\ Len(thrownLog) = 1
  /\ MatchesNone(LastThrown.error)
  /\ rtPc = "rejected"

\* ---- claims about the retry loops resolving ----

\* C11: when the wrapped function fails on its first k-1 invocations and
\* succeeds on the k-th (k <= retries + 1), the loop resolves with the value
\* of that k-th invocation, surfaces none of the earlier errors and never
\* invokes the function again; no loop gives up before invocation
\* retries + 1.  This holds for retry(), fetchWithRetry() and simpleRetry().
C11_SuccessResolves ==
  /\ ~rtOpts.filtered =>
       /\ fnValues # <<>> =>
            /\ rtPc = "resolved"
            /\ rtResult = [kind |-> "value", value |-> fnValues[1]]
            /\ Len(fnValues) = 1
            /\ fnCalls = Len(thrownLog) + 1
            /\ fnCalls <= rtOpts.retries + 1
       /\ rtPc = "rejected" => Len(thrownLog) = rtOpts.retries + 1
       /\ rtPc = "sleeping" => Len(thrownLog) <= rtOpts.retries
  /\ slValues # <<>> =>
       /\ slPc = "resolved"
       /\ slResult = [kind |-> "value", value |-> slValues[1]]
       /\ Len(slValues) = 1
       /\ slCalls = Len(slThrown) + 1
       /\ slCalls <= slOpts.retries + 1
  /\ slPc = "rejected" => Len(slThrown) = slOpts.retries + 1
  /\ slPc = "sleeping" => Len(slThrown) <= slOpts.retries

\* retry() has resolved on its last permitted invocation, after failures
C11_Witness ==
  /\ ~rtOpts.filtered /\ rtPc = "resolved" /\ rtOpts.retries = MaxRetries
  /\ Len(thrownLog) = MaxRetries

\* and so has fetchWithRetry() / simpleRetry()
C11_WitnessOf(kind) ==
  /\ slKind = kind /\ slPc = "resolved" /\ slOpts.retries = MaxRetries
  /\ Len(slThrown) = MaxRetries
C11_WitnessFetch == C11_WitnessOf("fetchWithRetry")
C11_WitnessSimple == C11_WitnessOf("simpleRetry")

\* ---- claims about AdaptiveRateLimiter ----

\* the rate of this.baseLimiter
BaseLimiterRate == arLimiters[Len(arLimiters)].rate

\* C12: a consume() called while errorCount exceeds errorThreshold leaves the
\* base limiter with the refill rate baseRate / (errorCount - errorThreshold + 1)
\* (with errorCount in tenths: baseRate * 10 / (excess + 10)).
C12_ScaledRate ==
  [][ (arIssued' = arIssued + 1 /\ arErrTenths > Tenths * arCfg.errorThreshold) =>
        LET excess == arErrTenths - Tenths * arCfg.errorThreshold IN
          BaseLimiterRate'.num * (excess + Tenths)
            = arCfg.baseRate * Tenths * BaseLimiterRate'.den ]_vars

\* C13: while errorCount is at or above errorThreshold, the consume() calls
\* that return in the window since that began number at most maxTokens plus
\* the window length times the refill rate; the bound is taken with baseRate,
\* which no reduced rate exceeds.
C13_Throttled ==
  arStretch.open =>
    arStretch.returned * MsPerSecond
      <= arCfg.maxTokens * MsPerSecond + (arNow - arStretch.since) * arCfg.baseRate

\* C28: the refill rate of the base limiter never exceeds baseRate, and as
\* long as onError() has not been called (lastErrorTime is still 0) it equals
\* baseRate, whatever consume() and onSuccess() calls were made.
C28_QuietKeepsBaseRate ==
  /\ BaseLimiterRate.num <= arCfg.baseRate * BaseLimiterRate.den
  /\ arLastErrorTime = 0 => BaseLimiterRate.num = arCfg.baseRate * BaseLimiterRate.den

\* ---- claims about StealthBrowser ----

\* C14: whenever close() has returned, close() has been called on the page,
\* the context and the browser that were still open, page first, then context,
\* then browser, and the reference of each resource whose close() resolved is
\* cleared: also after a failed initialize(), a failed navigation or a
\* close() of an earlier resource that threw.  (A resource is not counted as
\* left open when its own close() was called and threw.)
C14_AllReleased ==
  sbPc = "closed" =>
    /\ \A r \in sbOpen : \E i \in 1..Len(sbCloseCalls) : sbCloseCalls[i] = r
    /\ \A i \in 1..Len(sbCloseLog) : ~sbRefs[sbCloseLog[i]]
    /\ \A i, j \in 1..Len(sbCloseCalls) :
         i < j => PosOf(sbCloseCalls[i]) < PosOf(sbCloseCalls[j])

\* ---- claims about parseOpenAPISpec ----

\* a stage fails when it throws or yields nothing the later steps can work
\* with: null, or an object they cannot format
Unusable(d) == d = Throws \/ d.kind = "null" \/ ~d.formattable

\* the stages run in the order JSON, YAML, manual scan, each only after the
\* ones before it threw
C15_StageOrder ==
  /\ oaStages \in {<<>>, <<"json">>, <<"json", "yaml">>, <<"json", "yaml", "scan">>}
  /\ Len(oaStages) >= 2 => oaContent.json = Throws
  /\ Len(oaStages) >= 3 => oaContent.yaml = Throws

\* C15: the stages run in the fixed order JSON, YAML, manual scan, each only
\* when the earlier ones failed, and the parsing-error result is returned only
\* when all three stages ran and none yielded a usable document.
C15_FallbackChain ==
  /\ C15_StageOrder
  /\ oaResult.kind = "parseError" =>
       /\ oaStages = <<"json", "yaml", "scan">>
       /\ Unusable(oaContent.json) /\ Unusable(oaContent.yaml) /\ Unusable(oaContent.scan)

\* validation failed: the validator reported the document invalid, or threw
\* and the basic checks of a parsed object found something missing
ValidationFailed ==
  \/ oaChecks.validation = "invalid"
  \/ /\ oaChecks.validation = "throws"
     /\ oaChecks.original.kind = "object"
     /\ BasicErrors(oaChecks.original) # <<>>

\* C16: when validation failed, the call still returns the formatted result:
\* formatted and summary made from the document, isValid = false and the
\* problems listed in errors; when dereferencing failed, the document is the
\* original one.
C16_ValidationNeverAborts ==
  (oaPc = "done" /\ ValidationFailed) =>
    /\ oaResult.kind = "result"
    /\ oaResult.isValid = FALSE
    /\ oaResult.errors = oaErrors /\ oaErrors # <<>>
    /\ oaChecks.dereference = "rejected" => oaResult.spec = oaChecks.original

\* ---- claims about searchRelevantWebsites ----

\* two characters that are the same letter
SameLetter(a, b) == a = b \/ {a, b} = {"d", "D"}

\* the text holds the query, whatever the case of the letters
HasQuery(text) ==
  /\ text # Undefined
  /\ \E i \in 1..Len(text) :
       /\ i + Len(swQuery) - 1 <= Len(text)
       /\ \A k \in 1..Len(swQuery) : SameLetter(text[i + k - 1], swQuery[k])

SiteIds == 1..Len(swSites)
Fetches == 1..Len(swFetchLog)
FetchedOk(i) == \E f \in Fetches : swFetchLog[f].site = i /\ swFetchLog[f].ok
FetchFailed(i) == \E f \in Fetches : swFetchLog[f].site = i /\ ~swFetchLog[f].ok
Returned(i) == \E r \in 1..Len(swReturned) : swReturned[r].site = i

\* C17: a site is fetched only if the query is in its description or in its
\* URL, and no site is fetched more than once in a search.
C17_FetchGated ==
  /\ \A f \in Fetches :
       LET site == swSites[swFetchLog[f].site] IN
         HasQuery(site.description) \/ HasQuery(site.url)
  /\ \A f, g \in Fetches : swFetchLog[f].site = swFetchLog[g].site => f = g

\* the search returned after fetching one site and passing over another that
\* has the query neither in its description nor in its URL
C17_Witness ==
  /\ swPc = "returned"
  /\ \E i, j \in SiteIds :
       /\ FetchedOk(i)
       /\ ~HasQuery(swSites[j].description) /\ ~HasQuery(swSites[j].url)
       /\ ~FetchedOk(j) /\ ~FetchFailed(j)

\* C18: when the search has returned, a site whose fetch failed is not among
\* the results, every other site that has the query in its description or
\* URL was fetched all the same and is among the results when its fetch
\* succeeded; the call always ends by returning.
C18_FailureIsolated ==
  /\ swPc \in {"idle", "fetching", "returned"}
  /\ swPc = "returned" =>
       \A i \in SiteIds :
         /\ FetchFailed(i) => ~Returned(i)
         /\ (HasQuery(swSites[i].description) \/ HasQuery(swSites[i].url)) =>
              FetchedOk(i) \/ FetchFailed(i)
         /\ FetchedOk(i) => Returned(i)

\* the search returned a later site although the fetch of an earlier one failed
C18_Witness ==
  /\ swPc = "returned"
  /\ \E i, j \in SiteIds : i < j /\ FetchFailed(i) /\ FetchedOk(j) /\ Returned(j)

\* the total score of site i in tenths: 0.3 + 0.2 for the description, 0.1
\* for the URL, 0.4 for the Markdown its fetch returned
TotalScore(i, markdown) ==
  (IF HasQuery(swSites[i].description) THEN 3 + 2 ELSE 0)
    + (IF HasQuery(swSites[i].url) THEN 1 ELSE 0)
    + (IF HasQuery(markdown) THEN 4 ELSE 0)

\* C19: the returned list is ordered by non-increasing total score, each
\* entry carries the total of its site, and no entry has the score zero.
C19_SortedByScore ==
  swPc = "returned" =>
    /\ \A r, q \in 1..Len(swReturned) :
         r < q => swReturned[r].relevance >= swReturned[q].relevance
    /\ \A r \in 1..Len(swReturned) :
         /\ swReturned[r].relevance = TotalScore(swReturned[r].site, swReturned[r].content)
         /\ swReturned[r].relevance > 0

\* the sort moved a later site with a higher score ahead of an earlier one
C19_Witness ==
  /\ swPc = "returned"
  /\ Len(swReturned) >= 2
  /\ swReturned[1].relevance > swReturned[2].relevance
  /\ swReturned[1].site > swReturned[2].site

\* two sites are configured and i is the only one with the query in its
\* description; the fetch of i did not fail
OnlyDescriptionMatch(i) ==
  /\ Len(swSites) = 2
  /\ i \in SiteIds
  /\ \A j \in SiteIds : HasQuery(swSites[j].description) <=> j = i
  /\ ~FetchFailed(i)

\* C20 as stated: with two sites of which only one has the query in its
\* description, the search returns exactly that site, provided its fetch did
\* not fail.
C20_ExactlyThatSite ==
  swPc = "returned" =>
    \A i \in SiteIds :
      OnlyDescriptionMatch(i) =>
        /\ Len(swReturned) = 1
        /\ swReturned[1].site = i

\* C20 amended: the same, where the other site has the query in its URL
\* neither.
C20_ExactlyThatSiteNoUrlMatch ==
  swPc = "returned" =>
    \A i \in SiteIds :
      (OnlyDescriptionMatch(i) /\ \A j \in SiteIds \ {i} : ~HasQuery(swSites[j].url)) =>
        /\ Len(swReturned) = 1
        /\ swReturned[1].site = i

\* the search returned with the second of two sites as the only match
C20_Witness ==
  /\ swPc = "returned"
  /\ OnlyDescriptionMatch(2)
  /\ ~HasQuery(swSites[1].url)
  /\ Len(swReturned) = 1
  /\ swReturned[1].site = 2

\* ------------------------------------------------------------------------
\* Content processing
\* ------------------------------------------------------------------------
Limited == cpKind = "ContentProcessor" /\ cpOptions.minTextLength # 0

\* C21 as stated: whenever processContent returns a result with
\* minTextLength configured, the returned markdown has at least
\* minTextLength characters; otherwise the call fails with a
\* content-too-short error and returns no result.
C21_ReturnedLength ==
  Limited /\ cpPc # "idle" =>
    \/ cpPc = "returned" /\ Len(cpResult.markdown) >= cpOptions.minTextLength
    \/ cpPc = "thrown" /\ cpResult = ContentTooShort

\* C21: whenever processContent returns a result with minTextLength
\* configured, the post-processed Markdown had at least minTextLength
\* characters when it was measured, which is before it is cut to
\* maxTextLength and before it is trimmed; the returned markdown has that
\* many characters too when maxTextLength is not configured below
\* minTextLength - 3 and the text has no white space around it.  Otherwise
\* the call fails with a content-too-short error and returns no result.
C21_MeasuredLength ==
  Limited /\ cpPc # "idle" =>
    \/ /\ cpPc = "returned"
       /\ cpResult.kind = "result"
       /\ Len(cpMeasured) >= cpOptions.minTextLength
       /\ (  /\ cpOptions.maxTextLength = 0
                \/ cpOptions.maxTextLength + 3 >= cpOptions.minTextLength
             /\ Trim(cpMeasured) = cpMeasured
          => Len(cpResult.markdown) >= cpOptions.minTextLength)
    \/ /\ cpPc = "thrown"
       /\ cpResult = ContentTooShort
       /\ Len(cpMeasured) < cpOptions.minTextLength

\* a text that passed the minimum and was cut to maxTextLength
C21_Witness ==
  /\ Limited
  /\ cpPc = "returned"
  /\ cpOptions.maxTextLength # 0
  /\ Len(cpMeasured) > cpOptions.maxTextLength
  /\ Len(cpResult.markdown) >= cpOptions.minTextLength

\* the page is a plain <nav>, <article>, <footer>: no class on any of them
PlainElements == cpHtml.nav.cls = "none"

OnlyArticle ==
  /\ cpResult.content.of = "article"
  /\ cpResult.content.texts = {"article"}

\* C22 as stated: with a nav, an article holding at least 100 characters
\* of text and a footer, extraction returns only the article subtree: no
\* text of the nav or of the footer is in the content that becomes Markdown.
C22_ArticleOnlyFrom100 ==
  /\ cpPc = "returned"
  /\ cpOptions.extractMainContent
  /\ PlainElements
  /\ cpHtml.article.len >= ContentThreshold
  => OnlyArticle

\* C22: with a nav, an article holding more than 100 characters of text
\* and a footer, none of which a content selector tried before `article`
\* matches, extraction returns only the article subtree: no text of the nav
\* or of the footer is in the content that becomes Markdown.
C22_ArticleOnlyAbove100 ==
  /\ cpPc = "returned"
  /\ cpOptions.extractMainContent
  /\ PlainElements
  /\ cpHtml.article.len > ContentThreshold
  => OnlyArticle

\* the article was chosen although nav and footer were still in the page
\* and held more text
C22_Witness ==
  /\ cpPc = "returned"
  /\ cpOptions.extractMainContent
  /\ ~cpOptions.removeNavigation
  /\ cpKind = "ContentProcessor" /\ ~cpOptions.removeFooter
  /\ PlainElements
  /\ cpHtml.nav.wrapped /\ cpHtml.footer.wrapped
  /\ cpHtml.footer.len > cpHtml.article.len
  /\ cpHtml.article.len > ContentThreshold
  /\ OnlyArticle

\* ------------------------------------------------------------------------
\* RateLimiter: progress
\* ------------------------------------------------------------------------
Waiting(c) == consumers[c].pc = "sleeping"

\* C23: with refillRate > 0 and finitely many consume() calls, every
\* consume(n) with n <= maxTokens eventually returns, also when several
\* consumers wait on the bucket at once; a consume(n) with n > maxTokens
\* never returns: it neither returns at once nor after a sleep.
C23_ConsumeReturns ==
  /\ \A c \in Consumers : Servable(c) ~> ~Waiting(c)
  /\ [][/\ granted' - granted <= rlMaxTokens
        /\ \A c \in Consumers :
             Waiting(c) /\ consumers[c].n > rlMaxTokens => consumers'[c].pc = "sleeping"]_vars

\* two calls that the bucket can serve wait at once, other calls having
\* been served before
C23_Witness ==
  /\ granted >= 1
  /\ \E c \in Consumers : \E d \in Consumers : c # d /\ Servable(c) /\ Servable(d)

\* ------------------------------------------------------------------------
\* retry(): the onRetry hook
\* ------------------------------------------------------------------------
Hooked == ~rtOpts.filtered /\ rtOpts.onRetry

\* C24: in retry(), after each failed attempt other than the last, onRetry
\* is called exactly once with that attempt's error and its 1-based number,
\* before the backoff delay is slept; it is not called after the final
\* failed attempt nor after a success, so an operation that always fails
\* produces exactly `retries` calls, numbered 1..retries in order.
C24_OnRetryCalls ==
  Hooked =>
    /\ \A k \in 1..Len(onRetryLog) :
         onRetryLog[k] = [error |-> thrownLog[k].error, attempt |-> k]
    /\ Len(onRetryLog) = Len(delays)
    /\ rtPc = "sleeping" => Len(onRetryLog) = attempt + 1
    /\ rtPc = "awaitFn" => Len(onRetryLog) = attempt
    /\ rtPc = "resolved" => Len(onRetryLog) = Len(thrownLog)
    /\ rtPc = "rejected" =>
         /\ Len(onRetryLog) = Len(thrownLog) - 1
         /\ Len(onRetryLog) = rtOpts.retries

\* an operation that failed at every attempt, with at least two retries
C24_Witness ==
  /\ Hooked
  /\ rtPc = "rejected"
  /\ rtOpts.retries >= 2
  /\ Len(onRetryLog) = rtOpts.retries

\* ------------------------------------------------------------------------
\* SimpleRateLimit / rateLimit
\* ------------------------------------------------------------------------
\* C25: any two calls of wait() / rateLimit(intervalMs) return at least
\* intervalMs apart, also when a call is made while another is waiting.
C25_ReturnsSpaced ==
  \A i \in 1..Len(srReturns) : \A j \in (i + 1)..Len(srReturns) :
    srReturns[j] - srReturns[i] >= srInterval

\* ------------------------------------------------------------------------
\* ConfigManager
\* ------------------------------------------------------------------------
\* C29: a mutator that raises an error, be it for schema validation, an
\* unknown website name or a failure to save the file, leaves the
\* in-memory configuration exactly as it was before the call.
C29_FailureKeepsConfig ==
  [][cmOps' = cmOps + 1 /\ cmLast'.raised => cmConfig' = cmConfig]_vars

\* what the site found by name sets, or the global default
Expected(site, key, fallback) ==
  IF key \in DOMAIN site.customSettings THEN site.customSettings[key] ELSE fallback

\* C30: getMergedSettingsForWebsite returns the site's own timeout and
\* retries whenever the site defines them, retries = 0 included, and the
\* global defaultTimeout / defaultRetries only when the site leaves them
\* undefined.
C30_SiteSettingsWin ==
  cmLast.op = "getMergedSettingsForWebsite" /\ GetWebsiteByName(cmLast.name) # 0 =>
    LET site == cmConfig.websites[GetWebsiteByName(cmLast.name)] IN
      /\ cmMerged.timeout = Expected(site, "timeout", cmConfig.settings.defaultTimeout)
      /\ cmMerged.retries = Expected(site, "retries", cmConfig.settings.defaultRetries)

=============================================================================
